---- MODULE Spec2Model ----
(***************************************************************************)
(* Model of the memory subsystem of the AI travel companion                *)
(* (src/ai-services/chatbot_service.py, class AITwinChatbot): the three    *)
(* SQLite tables conversation_memory, user_facts and poi_knowledge and the *)
(* methods that read and write them, the persona prompt builder, the chat *)
(* turn, and the /chat handlers of production_main.py, main.py and         *)
(* simple_main.py.                                                         *)
(*                                                                         *)
(* Text is a sequence of one-character strings, so that lower(), find(),   *)
(* slicing and strip() are computed as Python computes them.  A table is   *)
(* the sequence of its rows in rowid order.  Time is an integer clock; one *)
(* tick is the resolution of CURRENT_TIMESTAMP and datetime('now').        *)
(***************************************************************************)
EXTENDS Integers, Sequences, FiniteSets, TLC

(***************************************************************************)
(* Bounds of the model                                                     *)
(***************************************************************************)
MaxRows == 4          \* rows ever inserted into conversation_memory
MaxFacts == 3         \* rows ever inserted into user_facts
MaxPoi == 3           \* rows ever inserted into poi_knowledge
MaxClock == 4         \* last clock tick
TicksPerHour == 2     \* clock ticks in one hour
MaxLimit == 2         \* largest limit passed to get_conversation_history
MaxAgeHours == 2      \* largest explicit max_age_hours passed to the sweep
EmbedMod == 3         \* range of one embedding component
MaxRetrieve == 2      \* largest limit passed to retrieve_relevant_memories
MaxRankerClock == 1   \* last clock tick of the ranker's runs

(***************************************************************************)
(* Program constants                                                       *)
(***************************************************************************)
DefaultTtlHours == 168
DefaultMaxAgeHours == 168
FactWindow == 100
UserImportance == 60       \* 0.6, in hundredths
AssistantImportance == 50  \* 0.5, in hundredths
FactConfidence == 70       \* 0.7, in hundredths
SimilarityWeight == 70     \* 0.7, in hundredths
ImportanceWeight == 30     \* 0.3, in hundredths
RelevanceFloor == 3000     \* 0.3, in ten-thousandths
CandidateWindow == 50      \* LIMIT 50

Users == {1, 2}
Sessions == {"session_a"}
PoiIds == {7, 8}

None == <<>>          \* Python None / SQL NULL

(***************************************************************************)
(* Text                                                                    *)
(***************************************************************************)
UpperCase == <<"A","B","C","D","E","F","G","H","I","J","K","L","M",
               "N","O","P","Q","R","S","T","U","V","W","X","Y","Z">>
LowerCase == <<"a","b","c","d","e","f","g","h","i","j","k","l","m",
               "n","o","p","q","r","s","t","u","v","w","x","y","z">>
Whitespace == {" ", "\t", "\n"}

Min(a, b) == IF a <= b THEN a ELSE b

\* U+0130, the capital I with a dot above, and U+0307, the combining dot
\* above: each stands for one character of a text
CapitalDottedI == "U+0130"
CombiningDot == "U+0307"

\* str.lower() on one character: one character, except for U+0130 whose
\* lowercase is "i" followed by U+0307
LowerChar(c) ==
    IF c = CapitalDottedI THEN <<"i", CombiningDot>>
    ELSE IF \E i \in DOMAIN UpperCase : UpperCase[i] = c
    THEN <<LowerCase[CHOOSE i \in DOMAIN UpperCase : UpperCase[i] = c]>>
    ELSE <<c>>

RECURSIVE LowerFrom(_, _)
LowerFrom(s, k) == IF k > Len(s) THEN <<>> ELSE LowerChar(s[k]) \o LowerFrom(s, k + 1)

\* str.lower()
Lower(s) == LowerFrom(s, 1)

\* pattern occurs in s at 1-based position i
OccursAt(pattern, s, i) ==
    /\ i + Len(pattern) - 1 <= Len(s)
    /\ \A k \in 1..Len(pattern) : s[i + k - 1] = pattern[k]

\* `pattern in s`
Contains(pattern, s) == \E i \in 1..(Len(s) + 1) : OccursAt(pattern, s, i)

\* s.find(pattern) as a 0-based index, -1 when absent
Find(pattern, s) ==
    IF Contains(pattern, s)
    THEN (CHOOSE i \in 1..(Len(s) + 1) :
            /\ OccursAt(pattern, s, i)
            /\ \A j \in 1..(i - 1) : ~OccursAt(pattern, s, j)) - 1
    ELSE -1

\* s[start:stop] for 0 <= start <= stop
Slice(s, start, stop) == SubSeq(s, start + 1, Min(stop, Len(s)))

\* str.strip()
Strip(s) ==
    LET keep == {i \in DOMAIN s : s[i] \notin Whitespace}
    IN IF keep = {} THEN <<>>
       ELSE SubSeq(s, CHOOSE i \in keep : \A j \in keep : i <= j,
                      CHOOSE i \in keep : \A j \in keep : j <= i)

\* number of occurrences of character c in s
Count(s, c) == Cardinality({i \in DOMAIN s : s[i] = c})

(***************************************************************************)
(* Inputs                                                                  *)
(***************************************************************************)
MsgLikeTea == <<"I"," ","l","i","k","e"," ","t","e","a">>
MsgLoveJazz == <<"i"," ","L","O","V","E"," ","j","a","z","z"," ">>
MsgHi == <<"h","i">>
MsgAvoidAndEnjoy == <<"a","v","o","i","d"," ","i","t",","," ","I"," ","e","n","j","o","y"," ","a","r","t">>
MsgAB == <<"a"," ","b">>
MsgLoveLikeAvoid == <<"I"," ","l","o","v","e"," ","a",","," ","i"," ","l","i","k","e"," ","b",","," ","a","v","o","i","d"," ","c">>
MsgIzmir == <<CapitalDottedI,"z","m","i","r"," ","i"," ","l","i","k","e"," ","i","t">>
Messages == {MsgLikeTea, MsgHi}
Queries == {MsgHi, MsgAB}
FactMessages == Messages \cup {MsgLoveJazz, MsgAvoidAndEnjoy, MsgLoveLikeAvoid, MsgIzmir}
Responses == {<<"o","k">>}
PoiNames == {<<"F","o","r","t">>}
PoiDescriptions == {<<"o","l","d">>, <<"n","e","w">>}
PoiTips == {<<>>}

(***************************************************************************)
(* Embedder: SentenceTransformer.encode and ndarray.tobytes                *)
(***************************************************************************)
\* the embedding vector of a text
Encode(text) == <<Len(text) % EmbedMod, Count(text, " ") % EmbedMod>>

\* the bytes of a vector, four per component
ToBytes(v) ==
    [i \in 1..(4 * Len(v)) |->
        IF (i - 1) % 4 = 0 THEN v[((i - 1) \div 4) + 1] % 256 ELSE 0]

(***************************************************************************)
(* State                                                                   *)
(***************************************************************************)
VARIABLES
    conversation_memory,   \* table conversation_memory, rows in rowid order
    memory_seq,            \* AUTOINCREMENT counter of conversation_memory
    user_facts,            \* table user_facts
    facts_seq,             \* AUTOINCREMENT counter of user_facts
    poi_knowledge,         \* table poi_knowledge
    poi_seq,               \* AUTOINCREMENT counter of poi_knowledge
    now,                   \* the clock
    connections,           \* the open connections of concurrent callers:
                           \* what each is doing and its uncommitted rows
    ret                    \* the last call: its arguments, its return value,
                           \* and what it logged

vars == <<conversation_memory, memory_seq, user_facts, facts_seq,
          poi_knowledge, poi_seq, now, connections, ret>>

\* INSERT OR REPLACE: rows that collide with the new row on a PRIMARY KEY or
\* UNIQUE column are deleted, then the row is inserted.  Every table declares
\* `id INTEGER PRIMARY KEY AUTOINCREMENT` as its only key.
InsertOrReplace(table, row) ==
    Append(SelectSeq(table, LAMBDA r : r.id # row.id), row)

\* a new row of conversation_memory; timestamp and ttl_hours take their
\* column defaults
MemoryRow(id, user_id, session_id, message_type, content, embedding, importance) ==
    [id |-> id, user_id |-> user_id, session_id |-> session_id,
     message_type |-> message_type, content |-> content,
     embedding |-> embedding, importance_score |-> importance,
     timestamp |-> now, ttl_hours |-> DefaultTtlHours]

\* the callers that may run at the same time, one connection each
Connections == {"c1", "c2"}

\* a caller that is not inside a store access
Closed == [pc |-> "closed", user_id |-> 0, facts_found |-> <<>>, pending |-> <<>>]

Init ==
    /\ conversation_memory = <<>>
    /\ memory_seq = 0
    /\ user_facts = <<>>
    /\ facts_seq = 0
    /\ poi_knowledge = <<>>
    /\ poi_seq = 0
    /\ now = 0
    /\ connections = [c \in Connections |-> Closed]
    /\ ret = [op |-> "init"]

\* the clock advances
Tick ==
    /\ now < MaxClock
    /\ now' = now + 1
    /\ UNCHANGED <<connections, conversation_memory, memory_seq, user_facts, facts_seq,
                   poi_knowledge, poi_seq, ret>>

(***************************************************************************)
(* store_conversation                                                      *)
(***************************************************************************)
\* the rows store_conversation commits: both turns when the store is
\* reachable and both encodes succeed, otherwise none (the exception leaves
\* the transaction uncommitted)
StoredTurns(user_id, session_id, user_message, ai_response, db_ok, user_embed_ok, ai_embed_ok) ==
    IF db_ok /\ user_embed_ok /\ ai_embed_ok
    THEN << MemoryRow(memory_seq + 1, user_id, session_id, "user", user_message,
                      ToBytes(Encode(user_message)), UserImportance),
            MemoryRow(memory_seq + 2, user_id, session_id, "assistant", ai_response,
                      ToBytes(Encode(ai_response)), AssistantImportance) >>
    ELSE << >>

StoreConversation(user_id, session_id, user_message, ai_response, db_ok, user_embed_ok, ai_embed_ok) ==
    LET turns == StoredTurns(user_id, session_id, user_message, ai_response,
                             db_ok, user_embed_ok, ai_embed_ok)
    IN /\ Len(conversation_memory) + 2 <= MaxRows
       /\ memory_seq + 2 <= MaxRows
       /\ conversation_memory' = conversation_memory \o turns
       /\ memory_seq' = memory_seq + Len(turns)
       /\ ret' = [op |-> "store_conversation", user_id |-> user_id,
                  user_message |-> user_message, ai_response |-> ai_response,
                  db_ok |-> db_ok,
                  embed_ok |-> user_embed_ok /\ ai_embed_ok,
                  ids |-> [i \in DOMAIN turns |-> turns[i].id],
                  value |-> None]
       /\ UNCHANGED <<connections, user_facts, facts_seq, poi_knowledge, poi_seq, now>>

(***************************************************************************)
(* get_conversation_history                                                *)
(***************************************************************************)
Reverse(s) == [i \in DOMAIN s |-> s[Len(s) + 1 - i]]

\* the first n elements of s (LIMIT n, n >= 0)
Take(s, n) == SubSeq(s, 1, Min(n, Len(s)))

\* the set of the rows of a table
RowSet(table) == {table[i] : i \in DOMAIN table}

\* a query without its WHERE clause
RowsOfAnyUser(user_id) == RowSet(conversation_memory)

\* `WHERE user_id = ?`
RowsOfUser(user_id) == {r \in RowSet(conversation_memory) : r.user_id = user_id}

\* the rows that may come first under `ORDER BY timestamp DESC`
LatestRows(rows) == {r \in rows : \A q \in rows : q.timestamp <= r.timestamp}

\* `ORDER BY timestamp DESC`: every sequence of the rows with non-increasing
\* timestamps; SQL leaves the order of rows with equal timestamps open
RECURSIVE OrderByTimestampDesc(_)
OrderByTimestampDesc(rows) ==
    IF rows = {} THEN {<<>>}
    ELSE UNION {{<<r>> \o rest : rest \in OrderByTimestampDesc(rows \ {r})} :
                r \in LatestRows(rows)}

\* a fetch of one row too many
HistoryFetchCountPlusOne(limit) == limit * 2 + 1

\* `LIMIT ?` is bound to limit * 2
HistoryFetchCount(limit) == limit * 2

\* the row sequences get_conversation_history may build from the store:
\* the fetched rows, reversed
HistoryRows(user_id, limit) ==
    {Reverse(Take(ordered, HistoryFetchCount(limit))) :
        ordered \in OrderByTimestampDesc(RowsOfUser(user_id))}

\* the dict built for one fetched row
HistoryEntry(r) ==
    [message_type |-> r.message_type, content |-> r.content, timestamp |-> r.timestamp]

GetConversationHistory(user_id, limit, db_ok) ==
    /\ \E rows \in (IF db_ok THEN HistoryRows(user_id, limit) ELSE {<<>>}) :
          ret' = [op |-> "get_conversation_history", user_id |-> user_id,
                  limit |-> limit, db_ok |-> db_ok,
                  ids |-> [i \in DOMAIN rows |-> rows[i].id],
                  value |-> [i \in DOMAIN rows |-> HistoryEntry(rows[i])]]
    /\ UNCHANGED <<connections, conversation_memory, memory_seq, user_facts, facts_seq,
                   poi_knowledge, poi_seq, now>>

(***************************************************************************)
(* cleanup_old_memories                                                    *)
(***************************************************************************)
\* a cutoff one tick late
SweepCutoffLate(max_age_hours) == now - max_age_hours * TicksPerHour + 1

\* datetime('now', '-' || max_age_hours || ' hours')
SweepCutoff(max_age_hours) == now - max_age_hours * TicksPerHour

\* a DELETE with `<=` for `<`
SweepMatchesInclusive(r, max_age_hours) ==
    r.timestamp <= now - max_age_hours * TicksPerHour

\* the WHERE clause of the DELETE
SweepMatches(r, max_age_hours) == r.timestamp < SweepCutoff(max_age_hours)

\* a sweep that also rewrites ttl_hours of the rows it keeps
SweepKeepsRewritten(max_age_hours) ==
    LET kept == SelectSeq(conversation_memory, LAMBDA r : ~SweepMatches(r, max_age_hours))
    IN [i \in DOMAIN kept |-> [kept[i] EXCEPT !.ttl_hours = max_age_hours]]

\* the table after the DELETE
SweepKeeps(max_age_hours) ==
    SelectSeq(conversation_memory, LAMBDA r : ~SweepMatches(r, max_age_hours))

\* what cleanup_old_memories hands back to its caller: the method has no
\* return statement
CleanupReturn(deleted_count) == None

CleanupOldMemories(max_age_hours, db_ok) ==
    LET kept == IF db_ok THEN SweepKeeps(max_age_hours) ELSE conversation_memory
        deleted_count == Len(conversation_memory) - Len(kept)
    IN /\ conversation_memory' = kept
       /\ ret' = [op |-> "cleanup_old_memories", max_age_hours |-> max_age_hours,
                  db_ok |-> db_ok,
                  deleted_count |-> deleted_count,
                  logged |-> IF db_ok THEN "info" ELSE "error",
                  value |-> CleanupReturn(deleted_count)]
       /\ UNCHANGED <<connections, memory_seq, user_facts, facts_seq, poi_knowledge, poi_seq, now>>

MaxAges == (0..MaxAgeHours) \cup {DefaultMaxAgeHours}

NextMemory ==
    \/ Tick
    \/ \E user_id \in Users, session_id \in Sessions, user_message \in Messages,
          ai_response \in Responses, db_ok, user_embed_ok, ai_embed_ok \in BOOLEAN :
          StoreConversation(user_id, session_id, user_message, ai_response,
                            db_ok, user_embed_ok, ai_embed_ok)
    \/ \E user_id \in Users, limit \in 0..MaxLimit, db_ok \in BOOLEAN :
          GetConversationHistory(user_id, limit, db_ok)
    \/ \E max_age_hours \in MaxAges, db_ok \in BOOLEAN :
          CleanupOldMemories(max_age_hours, db_ok)

\* the Memory Store: appends, chronological reads and expiry sweeps
SpecMemory == Init /\ [][NextMemory]_vars

(***************************************************************************)
(* retrieve_relevant_memories                                              *)
(***************************************************************************)
\* np.frombuffer(embedding_bytes, dtype=np.float32) succeeds: the buffer
\* size is a multiple of the element size
BufferReadable(embedding_bytes) == Len(embedding_bytes) % 4 = 0

\* np.frombuffer(embedding_bytes, dtype=np.float32)
FromBuffer(embedding_bytes) ==
    [i \in 1..(Len(embedding_bytes) \div 4) |-> embedding_bytes[4 * (i - 1) + 1]]

RECURSIVE DotFrom(_, _, _)
DotFrom(u, v, k) == IF k > Len(u) THEN 0 ELSE u[k] * v[k] + DotFrom(u, v, k + 1)

\* the inner product of two vectors of one length
Dot(u, v) == DotFrom(u, v, 1)

\* the largest s in lo..hi with s * s <= x, for lo * lo <= x
RECURSIVE ISqrtIn(_, _, _)
ISqrtIn(x, lo, hi) ==
    IF lo >= hi THEN lo
    ELSE LET mid == (lo + hi + 1) \div 2
         IN IF mid * mid <= x THEN ISqrtIn(x, mid, hi) ELSE ISqrtIn(x, lo, mid - 1)

\* cosine_similarity([u], [v])[0][0] in hundredths, rounded down, for
\* vectors without negative components; a zero vector has similarity 0 with
\* everything
CosineSimilarity(u, v) ==
    LET uu == Dot(u, u)
        vv == Dot(v, v)
        uv == Dot(u, v)
    IN IF uu * vv = 0 THEN 0
       ELSE ISqrtIn((10000 * uv * uv) \div (uu * vv), 0, 100)

\* similarity * 0.7 + importance * 0.3, in ten-thousandths
BlendedScore(similarity, importance) ==
    similarity * SimilarityWeight + importance * ImportanceWeight

\* a floor that lets every scored memory through
PassesFloorAlways(relevance_score) == relevance_score > 0

\* `if relevance_score > 0.3`
PassesFloor(relevance_score) == relevance_score > RelevanceFloor

\* the body of the try block of the scoring loop raises for this row: the
\* bytes are no float32 buffer or the vector has another length than the
\* query's
ScoringRaises(r, query_embedding) ==
    \/ ~BufferReadable(r.embedding)
    \/ Len(FromBuffer(r.embedding)) # Len(query_embedding)

\* relevance_score of a fetched row
RelevanceScore(r, query_embedding) ==
    BlendedScore(CosineSimilarity(query_embedding, FromBuffer(r.embedding)),
                 r.importance_score)

\* `WHERE user_id = ? AND embedding IS NOT NULL`
EmbeddedRowsOfUser(user_id) == {r \in RowsOfUser(user_id) : r.embedding # None}

\* the SELECT without its LIMIT
CandidateRowsUnbounded(user_id) == OrderByTimestampDesc(EmbeddedRowsOfUser(user_id))

\* the row sequences the SELECT of retrieve_relevant_memories may return
CandidateRows(user_id) ==
    {Take(ordered, CandidateWindow) :
        ordered \in OrderByTimestampDesc(EmbeddedRowsOfUser(user_id))}

\* the entry appended for a fetched row; `id` is kept to tell the entries
\* apart
ScoredEntry(r, query_embedding) ==
    [id |-> r.id, content |-> r.content,
     relevance_score |-> RelevanceScore(r, query_embedding),
     timestamp |-> r.timestamp]

\* relevant_memories after the scoring loop, in fetch order: a row whose
\* scoring raises is skipped, a row at or under the floor is dropped
RECURSIVE ScoredFrom(_, _, _)
ScoredFrom(memories, query_embedding, k) ==
    IF k > Len(memories) THEN <<>>
    ELSE (IF ScoringRaises(memories[k], query_embedding)
          THEN <<>>
          ELSE LET entry == ScoredEntry(memories[k], query_embedding)
               IN IF PassesFloor(entry.relevance_score) THEN <<entry>> ELSE <<>>)
         \o ScoredFrom(memories, query_embedding, k + 1)

ScoredMemories(memories, query_embedding) == ScoredFrom(memories, query_embedding, 1)

\* an unstable variant: x goes in front of the entries of equal score
InsertByScoreInFront(sorted, x) ==
    LET before == {i \in DOMAIN sorted : sorted[i].relevance_score > x.relevance_score}
        n == Cardinality(before)
    IN SubSeq(sorted, 1, n) \o <<x>> \o SubSeq(sorted, n + 1, Len(sorted))

\* x put into a list sorted by descending relevance_score, behind the
\* entries of equal score
InsertByScore(sorted, x) ==
    LET before == {i \in DOMAIN sorted : sorted[i].relevance_score >= x.relevance_score}
        n == Cardinality(before)
    IN SubSeq(sorted, 1, n) \o <<x>> \o SubSeq(sorted, n + 1, Len(sorted))

\* list.sort(key=relevance_score, reverse=True): stable
RECURSIVE SortByScoreFrom(_, _, _)
SortByScoreFrom(sorted, entries, k) ==
    IF Len(sorted) >= Len(entries) THEN sorted
    ELSE SortByScoreFrom(InsertByScore(sorted, entries[k]), entries, k + 1)

SortByScore(entries) == SortByScoreFrom(<<>>, entries, 1)

\* a scoring loop without its own handler: a row that raises ends the call
\* in the outer handler, which returns []
RankedMemoriesAborting(memories, query, limit) ==
    IF \E k \in DOMAIN memories : ScoringRaises(memories[k], Encode(query))
    THEN <<>>
    ELSE Take(SortByScore(ScoredMemories(memories, Encode(query))), limit)

\* the entries retrieve_relevant_memories returns for one fetch
RankedMemories(memories, query, limit) ==
    IF memories = <<>> THEN <<>>
    ELSE Take(SortByScore(ScoredMemories(memories, Encode(query))), limit)

\* the dict handed to the caller
MemoryEntry(e) ==
    [content |-> e.content, relevance_score |-> e.relevance_score,
     timestamp |-> e.timestamp]

\* the rows the SELECT hands to the scoring loop; none when the query cannot
\* be embedded or the store cannot be read
FetchedCandidates(user_id, db_ok, embed_ok) ==
    IF db_ok /\ embed_ok THEN CandidateRows(user_id) ELSE {<<>>}

\* `memories` is the fetch the call saw, one of FetchedCandidates; `ranked`
\* is its ranking
RetrieveRelevantMemories(user_id, query, limit, db_ok, embed_ok, memories) ==
    \E ranked \in {RankedMemories(memories, query, limit)} :
       /\ ret' = [op |-> "retrieve_relevant_memories", user_id |-> user_id,
                  query |-> query, limit |-> limit,
                  db_ok |-> db_ok, embed_ok |-> embed_ok,
                  fetched |-> [i \in DOMAIN memories |-> memories[i].id],
                  ids |-> [i \in DOMAIN ranked |-> ranked[i].id],
                  value |-> [i \in DOMAIN ranked |-> MemoryEntry(ranked[i])]]
       /\ UNCHANGED <<connections, conversation_memory, memory_seq, user_facts, facts_seq,
                      poi_knowledge, poi_seq, now>>

\* the failures one retrieval can meet: none, the store, or the embedder
RetrievalFaults == {<<TRUE, TRUE>>, <<FALSE, TRUE>>, <<TRUE, FALSE>>}

NextRanker ==
    \/ now < MaxRankerClock /\ Tick
    \/ \E user_id \in Users, session_id \in Sessions, user_message \in Messages,
          ai_response \in Responses :
          StoreConversation(user_id, session_id, user_message, ai_response,
                            TRUE, TRUE, TRUE)
    \/ \E user_id \in Users, faults \in RetrievalFaults :
          \E memories \in FetchedCandidates(user_id, faults[1], faults[2]) :
              \E query \in Queries, limit \in 0..MaxRetrieve :
                  RetrieveRelevantMemories(user_id, query, limit,
                                           faults[1], faults[2], memories)

\* the Relevance Ranker over a growing Memory Store
SpecRanker == Init /\ [][NextRanker]_vars

(***************************************************************************)
(* extract_user_facts                                                      *)
(***************************************************************************)
\* the cue phrases of each fact type, in the dict's insertion order
fact_patterns == <<
    [type |-> "preference", patterns |-> <<
           <<"i"," ","l","i","k","e">>,
           <<"i"," ","l","o","v","e">>,
           <<"i"," ","p","r","e","f","e","r">>,
           <<"i"," ","e","n","j","o","y">>,
           <<"f","a","v","o","r","i","t","e">>>>],
    [type |-> "dislike", patterns |-> <<
           <<"i"," ","h","a","t","e">>,
           <<"i"," ","d","i","s","l","i","k","e">>,
           <<"n","o","t"," ","a"," ","f","a","n">>,
           <<"a","v","o","i","d">>>>],
    [type |-> "experience", patterns |-> <<
           <<"i"," ","w","e","n","t"," ","t","o">>,
           <<"i"," ","v","i","s","i","t","e","d">>,
           <<"i"," ","t","r","i","e","d">>,
           <<"l","a","s","t"," ","t","i","m","e">>>>],
    [type |-> "plan", patterns |-> <<
           <<"p","l","a","n","n","i","n","g"," ","t","o">>,
           <<"w","a","n","t"," ","t","o"," ","v","i","s","i","t">>,
           <<"t","h","i","n","k","i","n","g"," ","a","b","o","u","t">>,
           <<"h","o","p","i","n","g"," ","t","o">>>>] >>

\* the patterns of one fact type that occur in the lowercased message
MatchingPatterns(patterns, message_lower) ==
    {i \in DOMAIN patterns : Contains(patterns[i], message_lower)}

\* an inner loop that runs to its end: the last pattern that occurs
LastMatch(patterns, message_lower) ==
    LET hits == MatchingPatterns(patterns, message_lower)
    IN patterns[CHOOSE i \in hits : \A j \in hits : i >= j]

\* the pattern at which the inner loop breaks: the first one that occurs
FirstMatch(patterns, message_lower) ==
    LET hits == MatchingPatterns(patterns, message_lower)
    IN patterns[CHOOSE i \in hits : \A j \in hits : i <= j]

\* the fact appended for one fact type
FactFor(entry, user_message) ==
    LET message_lower == Lower(user_message)
        start_idx == Find(FirstMatch(entry.patterns, message_lower), message_lower)
        fact_content == Slice(user_message, start_idx, start_idx + FactWindow)
    IN [type |-> entry.type, content |-> Strip(fact_content),
        confidence |-> FactConfidence]

\* facts_found after the loop over fact_patterns
RECURSIVE FactsFrom(_, _)
FactsFrom(user_message, k) ==
    IF k > Len(fact_patterns) THEN <<>>
    ELSE (IF MatchingPatterns(fact_patterns[k].patterns, Lower(user_message)) # {}
          THEN <<FactFor(fact_patterns[k], user_message)>>
          ELSE <<>>) \o FactsFrom(user_message, k + 1)

FactsFound(user_message) == FactsFrom(user_message, 1)

\* facts_found for every message of the model, computed once
ExtractedFacts == [user_message \in FactMessages |-> FactsFound(user_message)]

\* a new row of user_facts; last_updated and source take their column defaults
FactRow(id, user_id, fact) ==
    [id |-> id, user_id |-> user_id, fact_type |-> fact.type,
     fact_content |-> fact.content, confidence |-> fact.confidence,
     last_updated |-> now, source |-> "conversation"]

\* user_facts after the INSERT OR REPLACE of facts k.. of facts_found
RECURSIVE StoreFacts(_, _, _, _, _)
StoreFacts(table, seq, user_id, facts, k) ==
    IF k > Len(facts) THEN table
    ELSE StoreFacts(InsertOrReplace(table, FactRow(seq + 1, user_id, facts[k])),
                    seq + 1, user_id, facts, k + 1)

ExtractUserFacts(user_id, user_message, db_ok) ==
    LET facts_found == ExtractedFacts[user_message]
        written == db_ok /\ facts_found # <<>>
    IN /\ facts_seq + Len(facts_found) <= MaxFacts
       /\ user_facts' = IF written
                        THEN StoreFacts(user_facts, facts_seq, user_id, facts_found, 1)
                        ELSE user_facts
       /\ facts_seq' = IF written THEN facts_seq + Len(facts_found) ELSE facts_seq
       /\ ret' = [op |-> "extract_user_facts", user_id |-> user_id,
                  user_message |-> user_message, db_ok |-> db_ok,
                  facts_found |-> facts_found, value |-> None]
       /\ UNCHANGED <<connections, conversation_memory, memory_seq, poi_knowledge, poi_seq, now>>

(***************************************************************************)
(* add_poi_knowledge                                                       *)
(***************************************************************************)
\* f"{poi_name} {description} {tips}".strip()
PoiText(poi_name, description, tips) ==
    Strip(poi_name \o <<" ">> \o description \o <<" ">> \o tips)

\* a new row of poi_knowledge; created_at takes its column default
PoiRow(id, poi_id, poi_name, description, tips) ==
    [id |-> id, poi_id |-> poi_id, poi_name |-> poi_name,
     description |-> description, tips |-> tips,
     embedding |-> ToBytes(Encode(PoiText(poi_name, description, tips))),
     created_at |-> now]

AddPoiKnowledge(poi_id, poi_name, description, tips, db_ok, embed_ok) ==
    LET written == db_ok /\ embed_ok
    IN /\ poi_seq + 1 <= MaxPoi
       /\ poi_knowledge' = IF written
                           THEN InsertOrReplace(poi_knowledge,
                                    PoiRow(poi_seq + 1, poi_id, poi_name, description, tips))
                           ELSE poi_knowledge
       /\ poi_seq' = IF written THEN poi_seq + 1 ELSE poi_seq
       /\ ret' = [op |-> "add_poi_knowledge", poi_id |-> poi_id,
                  poi_name |-> poi_name, description |-> description,
                  tips |-> tips, db_ok |-> db_ok, embed_ok |-> embed_ok,
                  value |-> None]
       /\ UNCHANGED <<connections, conversation_memory, memory_seq, user_facts, facts_seq, now>>

NextFacts ==
    \/ Tick
    \/ \E user_id \in Users, user_message \in FactMessages, db_ok \in BOOLEAN :
          ExtractUserFacts(user_id, user_message, db_ok)

\* the Fact Store: extractions over time
SpecFacts == Init /\ [][NextFacts]_vars

NextKnowledge ==
    \/ Tick
    \/ \E poi_id \in PoiIds, poi_name \in PoiNames, description \in PoiDescriptions,
          tips \in PoiTips, db_ok, embed_ok \in BOOLEAN :
          AddPoiKnowledge(poi_id, poi_name, description, tips, db_ok, embed_ok)

\* the Knowledge Store: POI ingestion over time
SpecKnowledge == Init /\ [][NextKnowledge]_vars

(***************************************************************************)
(* build_persona_prompt                                                    *)
(*                                                                         *)
(* A prompt is a sequence whose elements are the characters of the         *)
(* interpolated values and, as one element each, the fixed pieces of text  *)
(* between them.  An Optional[Dict] is a record with is_none and the       *)
(* (key, value) items in insertion order.                                  *)
(***************************************************************************)
MaxMemories == 4
PromptMemoryCap == 3

NoDict == [is_none |-> TRUE, items |-> <<>>]
Dict(items) == [is_none |-> FALSE, items |-> items]

\* `if d:` on an Optional[Dict]
Truthy(d) == ~d.is_none /\ d.items # <<>>

HasKey(items, key) == \E i \in DOMAIN items : items[i][1] = key

\* d.get(key, default)
Get(items, key, default) ==
    IF HasKey(items, key)
    THEN items[CHOOSE i \in DOMAIN items : items[i][1] = key][2]
    ELSE default

BalancedTraveler == <<"b","a","l","a","n","c","e","d"," ","t","r","a","v","e","l","e","r">>
ScoreOpen == <<" ","(","s","c","o","r","e",":"," ">>
NoSpecificPreferences == <<"n","o"," ","s","p","e","c","i","f","i","c"," ","p","r","e","f","e","r","e","n","c","e","s">>
Mixed == <<"m","i","x","e","d">>
Solo == <<"s","o","l","o">>
Walking == <<"w","a","l","k","i","n","g">>
NoneText == <<"n","o","n","e">>
Unknown == <<"U","n","k","n","o","w","n">>
TextLow == <<"l","o","w">>
TextFoodie == <<"f","o","o","d","i","e">>
TextExplorer == <<"e","x","p","l","o","r","e","r">>
TextArt == <<"a","r","t">>

Digits == <<"0","1","2","3","4","5","6","7","8","9">>

\* f"{score:.2f}" of a weight given in hundredths
Format2f(score) ==
    <<Digits[(score \div 100) + 1], ".",
      Digits[((score \div 10) % 10) + 1], Digits[(score % 10) + 1]>>

\* ', '.join(texts)
RECURSIVE JoinFrom(_, _)
JoinFrom(texts, k) ==
    IF k > Len(texts) THEN <<>>
    ELSE (IF k > 1 THEN <<",", " ">> ELSE <<>>) \o texts[k] \o JoinFrom(texts, k + 1)

Join(texts) == JoinFrom(texts, 1)

\* a max that keeps the last item of the highest weight
MaxItemLast(items) ==
    items[CHOOSE i \in DOMAIN items :
             /\ \A j \in DOMAIN items : items[j][2] <= items[i][2]
             /\ \A j \in (i + 1)..Len(items) : items[j][2] < items[i][2]]

\* max(items, key=weight): the first item of the highest weight
MaxItem(items) ==
    items[CHOOSE i \in DOMAIN items :
             /\ \A j \in DOMAIN items : items[j][2] <= items[i][2]
             /\ \A j \in 1..(i - 1) : items[j][2] < items[i][2]]

get_primary_persona(persona_labels) ==
    IF persona_labels = <<>> THEN BalancedTraveler
    ELSE LET primary == MaxItem(persona_labels)
         IN primary[1] \o ScoreOpen \o Format2f(primary[2]) \o <<")">>

\* sorted(items, key=weight, reverse=True): the items by descending weight,
\* equal weights in insertion order
RECURSIVE SortedByWeight(_)
SortedByWeight(items) ==
    IF items = <<>> THEN <<>>
    ELSE LET i == CHOOSE i \in DOMAIN items :
                     /\ \A j \in DOMAIN items : items[j][2] <= items[i][2]
                     /\ \A j \in 1..(i - 1) : items[j][2] < items[i][2]
         IN <<items[i]>> \o
            SortedByWeight(SubSeq(items, 1, i - 1) \o SubSeq(items, i + 1, Len(items)))

TopCategories == 3

format_category_preferences(category_prefs) ==
    IF category_prefs = <<>> THEN NoSpecificPreferences
    ELSE LET top_categories == Take(SortedByWeight(category_prefs), TopCategories)
         IN Join([i \in DOMAIN top_categories |->
                     top_categories[i][1] \o <<" ", "(">> \o
                     Format2f(top_categories[i][2]) \o <<")">>])

BasePromptText == <<"You are an AI travel companion that adapts to the user's personality and preferences. \nYou provide personalized travel recommendations, answer questions, and help plan activities.\n\nKey traits:\n- Friendly and conversational\n- Knowledgeable about travel and local experiences\n- Adaptive to user's communication style\n- Proactive in suggesting relevant activities\n- Safety-conscious and practical">>

PersonaHeader == "\n\nUSER TRAVEL PERSONA:\n- Primary personality: "
MemoryHeader == "\n\nRELEVANT MEMORIES:\n"
MemoryFooter == "\nUse these memories to provide personalized responses."
ContextHeader == "\n\nCURRENT CONTEXT:\n- Location: "
TimeLabel == "\n- Time: "
WeatherLabel == "\n- Weather: "
MoodLabel == "\n- Mood: "
ContextFooter == "\n\nConsider this context when making recommendations."

\* the four fields of the context block: the dictionary key and the fixed
\* text in front of the value
ContextFields == <<
    [key |-> "location", label |-> ContextHeader],
    [key |-> "time_of_day", label |-> TimeLabel],
    [key |-> "weather", label |-> WeatherLabel],
    [key |-> "mood", label |-> MoodLabel]>>

PersonaSection(travel_dna) ==
    <<PersonaHeader>>
    \o get_primary_persona(Get(travel_dna.items, "persona_labels", <<>>))
    \o <<"\n- Budget preference: ">> \o Get(travel_dna.items, "budget_range", Mixed)
    \o <<"\n- Travel style: ">> \o Get(travel_dna.items, "travel_style", Solo)
    \o <<"\n- Preferred categories: ">>
    \o format_category_preferences(Get(travel_dna.items, "category_preferences", <<>>))
    \o <<"\n- Transport modes: ">>
    \o Join(Get(travel_dna.items, "transport_modes", <<Walking>>))
    \o <<"\n- Dietary restrictions: ">>
    \o Join(Get(travel_dna.items, "dietary_restrictions", <<NoneText>>))
    \o <<"\n\nAdapt your responses to match this persona. Be more adventurous for adventurers, food-focused for foodies, etc.">>

\* a variant that lists every memory
PromptMemoriesAll(memories) == memories

\* memories[:3]
PromptMemories(memories) == Take(memories, PromptMemoryCap)

\* the loop appending f"- {memory['content']}\n"
RECURSIVE MemoryBullets(_, _)
MemoryBullets(memories, k) ==
    IF k > Len(memories) THEN <<>>
    ELSE <<"- ">> \o memories[k].content \o <<"\n">> \o MemoryBullets(memories, k + 1)

MemorySection(memories) ==
    <<MemoryHeader>>
    \o MemoryBullets(PromptMemories(memories), 1)
    \o <<MemoryFooter>>

ContextSection(context) ==
    <<ContextHeader>> \o Get(context.items, "location", Unknown)
    \o <<TimeLabel>> \o Get(context.items, "time_of_day", Unknown)
    \o <<WeatherLabel>> \o Get(context.items, "weather", Unknown)
    \o <<MoodLabel>> \o Get(context.items, "mood", Unknown)
    \o <<ContextFooter>>

ResponseGuidelines == <<"\n\nRESPONSE GUIDELINES:\n- Keep responses conversational and helpful\n- Suggest specific places when relevant\n- Ask follow-up questions to better understand needs\n- Provide practical details (distance, time, cost when known)\n- Be encouraging and enthusiastic about travel experiences\n- If you don't know something specific, say so and suggest alternatives">>

\* the pieces of fixed text of the memory and context sections and the
\* closing block
FixedPieces ==
    {MemoryHeader, MemoryFooter, ContextHeader, TimeLabel, WeatherLabel, MoodLabel,
     ContextFooter, "- ", ResponseGuidelines[1]}

build_persona_prompt(travel_dna, memories, context) ==
    BasePromptText
    \o (IF Truthy(travel_dna) THEN PersonaSection(travel_dna) ELSE <<>>)
    \o (IF memories # <<>> THEN MemorySection(memories) ELSE <<>>)
    \o (IF Truthy(context) THEN ContextSection(context) ELSE <<>>)
    \o ResponseGuidelines

BuildPersonaPrompt(travel_dna, memories, context) ==
    /\ ret' = [op |-> "build_persona_prompt", travel_dna |-> travel_dna,
               memories |-> memories, context |-> context,
               value |-> build_persona_prompt(travel_dna, memories, context)]
    /\ UNCHANGED <<connections, conversation_memory, memory_seq, user_facts, facts_seq,
                   poi_knowledge, poi_seq, now>>

\* the persona profiles, ranked memories and ambient contexts of the model
TravelDnas ==
    {NoDict, Dict(<<>>),
     Dict(<< <<"budget_range", TextLow>> >>),
     Dict(<< <<"persona_labels", << <<TextFoodie, 85>>, <<TextExplorer, 85>>, <<TextArt, 40>> >> >>,
             <<"category_preferences", << <<TextArt, 30>>, <<TextFoodie, 90>>, <<TextExplorer, 30>>, <<TextLow, 95>> >> >>,
             <<"transport_modes", <<Walking, TextLow>> >> >>)}

MemoryContents == {MsgHi, MsgAB}

MemoryLists ==
    UNION {[1..n -> {[content |-> c, relevance_score |-> 8800, timestamp |-> 0] :
                        c \in MemoryContents}] : n \in 0..MaxMemories}

Contexts ==
    {NoDict, Dict(<<>>),
     Dict(<< <<"location", TextLow>> >>),
     Dict(<< <<"mood", TextFoodie>>, <<"weather", TextLow>> >>),
     Dict(<< <<"location", TextLow>>, <<"time_of_day", Solo>>, <<"weather", Mixed>>, <<"mood", TextFoodie>> >>)}

NextPrompt ==
    \E travel_dna \in TravelDnas, memories \in MemoryLists, context \in Contexts :
        BuildPersonaPrompt(travel_dna, memories, context)

\* the Persona Prompt Builder, called with every input of the model
SpecPrompt == Init /\ [][NextPrompt]_vars

(***************************************************************************)
(* get_openai_response and chat                                            *)
(***************************************************************************)
MaxChatClock == 1
MaxChatRows == 2
MaxSideRows == 1
ChatHistoryLimit == 10
DefaultRetrieveLimit == 5

\* the text get_openai_response returns when the completion call raises
CompletionApology == <<"I","'","m"," ","e","x","p","e","r","i","e","n","c","i","n","g"," ","s","o","m","e"," ","t","e","c","h","n","i","c","a","l"," ","d","i","f","f","i","c","u","l","t","i","e","s","."," ","L","e","t"," ","m","e"," ","t","r","y"," ","t","o"," ","h","e","l","p"," ","y","o","u"," ","i","n"," ","a"," ","d","i","f","f","e","r","e","n","t"," ","w","a","y",".">>

\* the text chat returns when its own try block raises
ChatTrouble == <<"I","'","m"," ","h","a","v","i","n","g"," ","t","r","o","u","b","l","e"," ","p","r","o","c","e","s","s","i","n","g"," ","y","o","u","r"," ","r","e","q","u","e","s","t"," ","r","i","g","h","t"," ","n","o","w","."," ","C","o","u","l","d"," ","y","o","u"," ","t","r","y"," ","a","g","a","i","n","?">>

\* the outcomes of the completion call: text, blank text, or an exception
Completions ==
    {[ok |-> TRUE, content |-> <<"o","k"," ">>],
     [ok |-> TRUE, content |-> <<" ">>],
     [ok |-> FALSE, content |-> <<>>]}

\* response.choices[0].message.content.strip(), or the apology
get_openai_response(completion) ==
    IF completion.ok THEN Strip(completion.content) ELSE CompletionApology

\* a profile read from the Fact Store: the user's latest fact as travel style
TravelDnaFromFacts(user_id) ==
    LET mine == SelectSeq(user_facts, LAMBDA r : r.user_id = user_id)
    IN IF mine = <<>> THEN NoDict
       ELSE Dict(<< <<"travel_style", mine[Len(mine)].fact_content>> >>)

\* get_user_travel_dna always returns None
get_user_travel_dna(user_id) == NoDict

SessionPrefix == <<"s","e","s","s","i","o","n","_">>

\* f"session_{datetime.now().strftime('%Y%m%d_%H%M%S')}"
GeneratedSessionId == SessionPrefix \o <<Digits[now + 1]>>

\* the list passed to the completion call
ChatMessagesFor(system_prompt, conversation_history, message) ==
    <<[role |-> "system", content |-> system_prompt]>>
    \o [i \in DOMAIN conversation_history |->
           [role |-> conversation_history[i].message_type,
            content |-> conversation_history[i].content]]
    \o <<[role |-> "user", content |-> message]>>

\* the steps of one turn, in program order
ChatSteps ==
    <<"get_conversation_history", "retrieve_relevant_memories", "get_openai_response",
      "store_conversation", "extract_user_facts">>

\* `context.get('session_id', ...)` raises AttributeError on None
SessionLookupRaises(context) == context.is_none

\* one call of chat; history_rows is what get_conversation_history fetched
\* and relevant_memories what retrieve_relevant_memories returned
Chat(user_id, message, context, completion, db_ok, embed_ok, history_rows, relevant_memories) ==
    \E response \in {get_openai_response(completion)} :
    \E system_prompt \in {build_persona_prompt(get_user_travel_dna(user_id),
                                               relevant_memories, context)} :
       IF SessionLookupRaises(context)
       THEN /\ ret' = [op |-> "chat", user_id |-> user_id, message |-> message,
                       context |-> context, completion |-> completion,
                       db_ok |-> db_ok, embed_ok |-> embed_ok,
                       steps |-> SubSeq(ChatSteps, 1, 3),
                       history |-> [i \in DOMAIN history_rows |-> history_rows[i].id],
                       memories |-> [i \in DOMAIN relevant_memories |-> relevant_memories[i].id],
                       system_prompt |-> system_prompt,
                       messages |-> ChatMessagesFor(system_prompt,
                                       [i \in DOMAIN history_rows |-> HistoryEntry(history_rows[i])],
                                       message),
                       appended |-> <<>>, facts_found |-> <<>>,
                       raised |-> FALSE,
                       value |-> [response |-> ChatTrouble, session_id |-> None,
                                  error |-> TRUE, memories_used |-> 0,
                                  timestamp |-> now]]
            /\ UNCHANGED <<connections, conversation_memory, memory_seq, user_facts, facts_seq,
                           poi_knowledge, poi_seq, now>>
       ELSE \E session_id \in {Get(context.items, "session_id", GeneratedSessionId)} :
            \E turns \in {StoredTurns(user_id, session_id, message, response,
                                      db_ok, embed_ok, embed_ok)},
               facts_found \in {ExtractedFacts[message]} :
               /\ Len(conversation_memory) + Len(turns) <= MaxChatRows
               /\ facts_seq + Len(facts_found) <= MaxFacts
               /\ conversation_memory' = conversation_memory \o turns
               /\ memory_seq' = memory_seq + Len(turns)
               /\ user_facts' = IF db_ok
                                THEN StoreFacts(user_facts, facts_seq, user_id, facts_found, 1)
                                ELSE user_facts
               /\ facts_seq' = IF db_ok THEN facts_seq + Len(facts_found) ELSE facts_seq
               /\ ret' = [op |-> "chat", user_id |-> user_id, message |-> message,
                          context |-> context, completion |-> completion,
                          db_ok |-> db_ok, embed_ok |-> embed_ok,
                          steps |-> ChatSteps,
                          history |-> [i \in DOMAIN history_rows |-> history_rows[i].id],
                          memories |-> [i \in DOMAIN relevant_memories |-> relevant_memories[i].id],
                          system_prompt |-> system_prompt,
                          messages |-> ChatMessagesFor(system_prompt,
                                          [i \in DOMAIN history_rows |-> HistoryEntry(history_rows[i])],
                                          message),
                          appended |-> [i \in DOMAIN turns |-> turns[i].id],
                          facts_found |-> facts_found,
                          raised |-> FALSE,
                          value |-> [response |-> response, session_id |-> session_id,
                                     error |-> FALSE,
                                     memories_used |-> Len(relevant_memories),
                                     timestamp |-> now]]
               /\ UNCHANGED <<connections, poi_knowledge, poi_seq, now>>

\* the user whose turns are followed
ChatUsers == {1}

\* the ambient contexts passed to chat: none, empty, with a session id
ChatContexts ==
    {NoDict, Dict(<<>>), Dict(<< <<"session_id", <<"s","1">> >>, <<"mood", TextFoodie>> >>)}

NextChat ==
    \/ now < MaxChatClock /\ Tick
    \/ \E user_id \in ChatUsers, faults \in RetrievalFaults :
          \E history_rows \in (IF faults[1] THEN HistoryRows(user_id, ChatHistoryLimit)
                               ELSE {<<>>}),
             memories \in FetchedCandidates(user_id, faults[1], faults[2]) :
             \E message \in Messages :
             \E relevant_memories \in {RankedMemories(memories, message, DefaultRetrieveLimit)} :
             \E context \in ChatContexts, completion \in Completions :
                Chat(user_id, message, context, completion, faults[1], faults[2],
                     history_rows, relevant_memories)

\* chat turns over time
SpecChat == Init /\ [][NextChat]_vars

(***************************************************************************)
(* The HTTP /chat handlers: production_main.chat_with_ai,                  *)
(* main.chat_with_ai_twin and simple_main.chat_endpoint.                   *)
(*                                                                         *)
(* A fixed reply is a one-element text holding the reply's opening words.  *)
(***************************************************************************)
\* how the completion call of a handler ends
CompletionOutcomes == {"ok", "timeout", "rate_limit", "authentication"}

\* the text of a completion that succeeds
HttpCompletionText == <<"o","k">>

HttpMessages ==
    {MsgHi, <<"p","a","r","i","s"," ","f","o","o","d">>, <<"C","h","e","a","p"," ","h","o","t","e","l">>, <<"n","e","p","a","l">>, <<"t","e","a">>, <<"w","e","a","t","h","e","r">>}

\* any(word in message_lower for word in words)
AnyWordIn(words, message_lower) ==
    \E i \in DOMAIN words : Contains(words[i], message_lower)

\* the reply of the first rule of an if/elif chain that has a word in the
\* message, or the default
RECURSIVE FirstRuleFrom(_, _, _, _)
FirstRuleFrom(rules, message_lower, default, k) ==
    IF k > Len(rules) THEN default
    ELSE IF AnyWordIn(rules[k].words, message_lower) THEN rules[k].reply
    ELSE FirstRuleFrom(rules, message_lower, default, k + 1)

FirstRule(rules, message_lower, default) == FirstRuleFrom(rules, message_lower, default, 1)

\* fallback_responses.generate_fallback_response
FallbackRules == <<
    [words |-> <<<<"h","e","l","l","o">>, <<"h","i">>, <<"h","e","y">>, <<"s","t","a","r","t">>>>, reply |-> <<"Hello! I'm your AI Travel Companion.">>],
    [words |-> <<<<"p","a","r","i","s">>, <<"f","r","a","n","c","e">>>>, reply |-> <<"Paris is absolutely magical! Here are my top recommendations:">>],
    [words |-> <<<<"t","o","k","y","o">>, <<"j","a","p","a","n">>>>, reply |-> <<"Tokyo is incredible! Here's what you shouldn't miss:">>],
    [words |-> <<<<"b","u","d","g","e","t">>, <<"c","h","e","a","p">>, <<"a","f","f","o","r","d","a","b","l","e">>>>, reply |-> <<"Smart budget travel tips! Here are proven strategies:">>],
    [words |-> <<<<"r","e","s","t","a","u","r","a","n","t">>, <<"f","o","o","d">>, <<"e","a","t">>, <<"d","i","n","i","n","g">>>>, reply |-> <<"Great food makes any trip memorable! Here's how to find the best:">>],
    [words |-> <<<<"i","t","i","n","e","r","a","r","y">>, <<"p","l","a","n">>, <<"s","c","h","e","d","u","l","e">>, <<"d","a","y","s">>>>, reply |-> <<"Perfect! Let me help you create an amazing itinerary:">>],
    [words |-> <<<<"w","e","a","t","h","e","r">>, <<"c","l","i","m","a","t","e">>, <<"s","e","a","s","o","n">>>>, reply |-> <<"Weather planning is crucial for a great trip! Here's what to consider:">>] >>

generate_fallback_response(message) ==
    FirstRule(FallbackRules, Lower(message),
              <<"I understand you're asking about: \"">> \o message
                  \o <<"\"\n\nWhile I'm currently in offline mode, I'm still here to help with your travel planning!">>)

\* the status of the HTTPException chat_with_ai raises for an outcome of the
\* completion call, 0 when it raises none; this variant raises none at all
ProductionErrorStatusNone(outcome) == 0

\* `except openai.RateLimitError` and `except openai.AuthenticationError`:
\* the status of the HTTPException raised, 0 when none is raised
ProductionErrorStatus(outcome) ==
    IF outcome = "rate_limit" THEN 429
    ELSE IF outcome = "authentication" THEN 500
    ELSE 0

HttpResult(op, user_id, message, called, outcome, status, response, source) ==
    [op |-> op, user_id |-> user_id, message |-> message, called |-> called, outcome |-> outcome,
     status |-> status, raised |-> status # 200, response |-> response,
     source |-> source]

\* production_main.chat_with_ai
ProductionChat(user_id, message, outcome) ==
    /\ ret' = IF outcome = "ok"
              THEN HttpResult("production_main.chat_with_ai", user_id, message, TRUE, outcome,
                              200, HttpCompletionText, "completion")
              ELSE IF ProductionErrorStatus(outcome) # 0
              THEN HttpResult("production_main.chat_with_ai", user_id, message, TRUE, outcome,
                              ProductionErrorStatus(outcome), <<>>, "HTTPException")
              ELSE HttpResult("production_main.chat_with_ai", user_id, message, TRUE, outcome,
                              200, generate_fallback_response(message), "fallback")
    /\ UNCHANGED <<connections, conversation_memory, memory_seq, user_facts, facts_seq,
                   poi_knowledge, poi_seq, now>>

\* the if/elif chain of main.chat_with_ai_twin
EnhancedRules == <<
    [words |-> <<<<"n","e","p","a","l">>>>, reply |-> <<"Nepal is absolutely incredible!">>],
    [words |-> <<<<"h","i">>, <<"h","e","l","l","o">>, <<"h","e","y">>>>, reply |-> <<"Hello! I'm excited to help you explore the world!">>],
    [words |-> <<<<"r","e","s","t","a","u","r","a","n","t">>, <<"f","o","o","d">>, <<"e","a","t">>, <<"d","i","n","i","n","g">>>>, reply |-> <<"I love talking about food!">>],
    [words |-> <<<<"b","u","d","g","e","t">>, <<"c","h","e","a","p">>, <<"a","f","f","o","r","d","a","b","l","e">>>>, reply |-> <<"Smart budgeting opens up amazing possibilities!">>],
    [words |-> <<<<"f","u","c","k">>, <<"d","a","m","n">>, <<"s","h","i","t">>>>, reply |-> <<"I understand travel planning can be frustrating sometimes!">>] >>

\* the list random.choice draws from
EnhancedDefaults == <<
    <<"That's interesting! Tell me more about what you have in mind.">>,
    <<"I'd love to help you plan something amazing!">>,
    <<"Every great trip starts with a dream!">> >>

BasicFallback == <<"I'm here to help with your travel planning! What destination interests you?">>

\* main.chat_with_ai_twin; nvidia_api_key tells whether NVIDIA_API_KEY is
\* set, choice is the draw of random.choice
MainChat(user_id, message, nvidia_api_key, outcome, choice) ==
    /\ ret' = IF nvidia_api_key /\ outcome = "ok"
              THEN HttpResult("main.chat_with_ai_twin", user_id, message, TRUE, outcome,
                              200, HttpCompletionText, "nvidia-nim-llama-3.1-405b")
              ELSE IF nvidia_api_key /\ outcome = "timeout"
              THEN HttpResult("main.chat_with_ai_twin", user_id, message, TRUE, outcome,
                              200, BasicFallback, "fallback-basic")
              ELSE HttpResult("main.chat_with_ai_twin", user_id, message, nvidia_api_key,
                              IF nvidia_api_key THEN outcome ELSE "not called",
                              200,
                              FirstRule(EnhancedRules, Lower(message), EnhancedDefaults[choice]),
                              "fallback-enhanced")
    /\ UNCHANGED <<connections, conversation_memory, memory_seq, user_facts, facts_seq,
                   poi_knowledge, poi_seq, now>>

\* simple_main.TRAVEL_RESPONSES, in insertion order
TravelResponses == <<
    [words |-> <<<<"p","a","r","i","s">>>>, reply |-> <<"Paris is absolutely magical!">>],
    [words |-> <<<<"t","o","k","y","o">>>>, reply |-> <<"Tokyo offers an incredible blend of tradition and innovation!">>],
    [words |-> <<<<"r","e","s","t","a","u","r","a","n","t">>>>, reply |-> <<"Great choice for dining!">>],
    [words |-> <<<<"b","u","d","g","e","t">>>>, reply |-> <<"Smart budget travel!">>],
    [words |-> <<<<"h","o","t","e","l">>>>, reply |-> <<"For accommodations, I suggest checking reviews, location proximity to attractions, and amenities that matter to you.">>],
    [words |-> <<<<"f","l","i","g","h","t">>>>, reply |-> <<"For flights, try booking 6-8 weeks in advance, be flexible with dates, and consider nearby airports.">>],
    [words |-> <<<<"a","c","t","i","v","i","t","y">>>>, reply |-> <<"There are so many amazing activities to discover!">>],
    [words |-> <<<<"w","e","a","t","h","e","r">>>>, reply |-> <<"Weather can make or break a trip!">>] >>

SimpleDefault == <<"I'd be happy to help you plan your travel!">>

\* simple_main.generate_travel_response; openai_available tells whether the
\* client library and OPENAI_API_KEY are there
generate_travel_response(message, openai_available, outcome) ==
    IF openai_available /\ outcome = "ok" THEN Strip(HttpCompletionText)
    ELSE FirstRule(TravelResponses, Lower(message), SimpleDefault)

\* simple_main.chat_endpoint
SimpleChat(user_id, message, openai_available, outcome) ==
    /\ ret' = HttpResult("simple_main.chat_endpoint", user_id, message, openai_available,
                         IF openai_available THEN outcome ELSE "not called",
                         200, generate_travel_response(message, openai_available, outcome),
                         IF openai_available /\ outcome = "ok" THEN "completion"
                         ELSE "fallback")
    /\ UNCHANGED <<connections, conversation_memory, memory_seq, user_facts, facts_seq,
                   poi_knowledge, poi_seq, now>>

NextHttp ==
    \/ \E user_id \in Users, message \in HttpMessages, outcome \in CompletionOutcomes :
          ProductionChat(user_id, message, outcome)
    \/ \E user_id \in Users, message \in HttpMessages, nvidia_api_key \in BOOLEAN,
          outcome \in CompletionOutcomes, choice \in DOMAIN EnhancedDefaults :
          MainChat(user_id, message, nvidia_api_key, outcome, choice)
    \/ \E user_id \in Users, message \in HttpMessages, openai_available \in BOOLEAN,
          outcome \in CompletionOutcomes :
          SimpleChat(user_id, message, openai_available, outcome)

\* requests to the three /chat handlers
SpecHttp == Init /\ [][NextHttp]_vars

(***************************************************************************)
(* extract_user_facts run by concurrent callers.  Each caller has its own  *)
(* connection (line 303); a connection's INSERTs stay invisible to the     *)
(* others until its commit, and SQLite lets one connection write at a      *)
(* time: the first INSERT of a transaction takes the write lock, commit    *)
(* releases it, and a connection that finds it taken raises                *)
(* `database is locked` once its busy timeout is over.                     *)
(***************************************************************************)
WriterMessages == {MsgLikeTea, MsgLoveJazz, MsgAvoidAndEnjoy}

\* the connections that hold the write lock
LockHolders == {c \in Connections : connections[c].pending # <<>>}

\* lines 285-303: the facts are found, and the store is opened if there are any
OpenForFacts(c, user_id, user_message) ==
    /\ connections[c].pc = "closed"
    /\ ExtractedFacts[user_message] # <<>>
    /\ facts_seq + Len(ExtractedFacts[user_message]) <= MaxFacts
    /\ \A d \in Connections \ {c} :
          facts_seq + Len(connections[d].facts_found) + Len(ExtractedFacts[user_message])
              <= MaxFacts
    /\ connections' = [connections EXCEPT ![c] =
                          [pc |-> "open", user_id |-> user_id,
                           facts_found |-> ExtractedFacts[user_message],
                           pending |-> <<>>]]
    /\ UNCHANGED <<conversation_memory, memory_seq, user_facts, facts_seq,
                   poi_knowledge, poi_seq, now, ret>>

\* lines 306-311: the INSERT OR REPLACE of the next fact
InsertFact(c) ==
    LET conn == connections[c]
        k == Len(conn.pending) + 1
    IN /\ conn.pc = "open"
       /\ k <= Len(conn.facts_found)
       /\ LockHolders \subseteq {c}
       /\ connections' = [connections EXCEPT ![c].pending =
                             Append(conn.pending,
                                    FactRow(facts_seq + k, conn.user_id, conn.facts_found[k]))]
       /\ UNCHANGED <<conversation_memory, memory_seq, user_facts, facts_seq,
                      poi_knowledge, poi_seq, now, ret>>

\* the first INSERT finds the write lock taken until the busy timeout is
\* over: the exception is logged at line 316 and nothing is written
InsertFindsLocked(c) ==
    /\ connections[c].pc = "open"
    /\ connections[c].pending = <<>>
    /\ LockHolders \ {c} # {}
    /\ connections' = [connections EXCEPT ![c] = Closed]
    /\ ret' = [op |-> "extract_user_facts", connection |-> c,
               user_id |-> connections[c].user_id,
               facts_found |-> connections[c].facts_found,
               committed |-> FALSE, value |-> None]
    /\ UNCHANGED <<conversation_memory, memory_seq, user_facts, facts_seq,
                   poi_knowledge, poi_seq, now>>

\* the rows of a transaction applied to the table
RECURSIVE ApplyRows(_, _, _)
ApplyRows(table, rows, k) ==
    IF k > Len(rows) THEN table
    ELSE ApplyRows(InsertOrReplace(table, rows[k]), rows, k + 1)

\* lines 313-314: conn.commit()
CommitFacts(c) ==
    LET conn == connections[c]
    IN /\ conn.pc = "open"
       /\ conn.pending # <<>>
       /\ Len(conn.pending) = Len(conn.facts_found)
       /\ user_facts' = ApplyRows(user_facts, conn.pending, 1)
       /\ facts_seq' = facts_seq + Len(conn.pending)
       /\ connections' = [connections EXCEPT ![c] = Closed]
       /\ ret' = [op |-> "extract_user_facts", connection |-> c,
                  user_id |-> conn.user_id, facts_found |-> conn.facts_found,
                  committed |-> TRUE, value |-> None]
       /\ UNCHANGED <<conversation_memory, memory_seq, poi_knowledge, poi_seq, now>>

NextWriters ==
    \/ Tick
    \/ \E c \in Connections, user_id \in Users, user_message \in WriterMessages :
          OpenForFacts(c, user_id, user_message)
    \/ \E c \in Connections : InsertFact(c)
    \/ \E c \in Connections : InsertFindsLocked(c)
    \/ \E c \in Connections : CommitFacts(c)

\* the Fact Store under concurrent extractions
SpecWriters == Init /\ [][NextWriters]_vars

(***************************************************************************)
(* Two users: appends and extractions for one, reads for the other         *)
(***************************************************************************)
NextUsers ==
    \/ now < MaxRankerClock /\ Tick
    \/ \E user_id \in Users, session_id \in Sessions, ai_response \in Responses :
          StoreConversation(user_id, session_id, MsgHi, ai_response, TRUE, TRUE, TRUE)
    \/ \E user_id \in Users : ExtractUserFacts(user_id, MsgLikeTea, TRUE)
    \/ \E user_id \in Users : GetConversationHistory(user_id, MaxLimit, TRUE)
    \/ \E user_id \in Users :
          \E memories \in FetchedCandidates(user_id, TRUE, TRUE) :
              RetrieveRelevantMemories(user_id, MsgHi, MaxRetrieve, TRUE, TRUE, memories)

\* requests of two users, interleaved
SpecUsers == Init /\ [][NextUsers]_vars

(***************************************************************************)
(* store_conversation statement by statement, beside other callers         *)
(***************************************************************************)
\* line 198: the store is opened
OpenForTurns(c, user_id, session_id, user_message, ai_response) ==
    /\ connections[c].pc = "closed"
    /\ Len(conversation_memory) + 2 <= MaxRows
    /\ connections' = [connections EXCEPT ![c] =
                          [pc |-> "storing", user_id |-> user_id,
                           session_id |-> session_id,
                           user_message |-> user_message,
                           ai_response |-> ai_response,
                           facts_found |-> <<>>, pending |-> <<>>]]
    /\ UNCHANGED <<conversation_memory, memory_seq, user_facts, facts_seq,
                   poi_knowledge, poi_seq, now, ret>>

\* the connection is dropped without a commit: its rows are rolled back
\* and the exception is logged at line 221
AbandonTurns(c) ==
    /\ connections' = [connections EXCEPT ![c] = Closed]
    /\ ret' = [op |-> "store_conversation", connection |-> c,
               user_id |-> connections[c].user_id,
               committed |-> FALSE, ids |-> <<>>, value |-> None]
    /\ UNCHANGED <<conversation_memory, memory_seq, user_facts, facts_seq,
                   poi_knowledge, poi_seq, now>>

\* lines 202-207: the user message is encoded and inserted; a failing
\* encode, or a write lock held by another connection until the busy
\* timeout is over, raises
InsertUserTurn(c, user_embed_ok) ==
    LET conn == connections[c]
    IN /\ conn.pc = "storing"
       /\ conn.pending = <<>>
       /\ IF user_embed_ok /\ LockHolders \subseteq {c}
          THEN /\ connections' = [connections EXCEPT ![c].pending =
                     <<MemoryRow(memory_seq + 1, conn.user_id, conn.session_id, "user",
                                 conn.user_message,
                                 ToBytes(Encode(conn.user_message)), UserImportance)>>]
               /\ UNCHANGED <<conversation_memory, memory_seq, user_facts, facts_seq,
                              poi_knowledge, poi_seq, now, ret>>
          ELSE AbandonTurns(c)

\* lines 210-215: the response is encoded and inserted in the transaction
\* the first INSERT began
InsertAssistantTurn(c, ai_embed_ok) ==
    LET conn == connections[c]
    IN /\ conn.pc = "storing"
       /\ Len(conn.pending) = 1
       /\ IF ai_embed_ok
          THEN /\ connections' = [connections EXCEPT ![c].pending =
                     Append(conn.pending,
                            MemoryRow(memory_seq + 2, conn.user_id, conn.session_id,
                                      "assistant", conn.ai_response,
                                      ToBytes(Encode(conn.ai_response)),
                                      AssistantImportance))]
               /\ UNCHANGED <<conversation_memory, memory_seq, user_facts, facts_seq,
                              poi_knowledge, poi_seq, now, ret>>
          ELSE AbandonTurns(c)

\* a commit placed behind the first INSERT as well
ReadyToCommitEarly(conn) == Len(conn.pending) >= 1

\* conn.commit() stands behind the second INSERT
ReadyToCommit(conn) == Len(conn.pending) = 2

\* lines 217-218: conn.commit(), conn.close()
CommitTurns(c) ==
    LET conn == connections[c]
    IN /\ conn.pc = "storing"
       /\ ReadyToCommit(conn)
       /\ conversation_memory' = conversation_memory \o conn.pending
       /\ memory_seq' = memory_seq + Len(conn.pending)
       /\ connections' = [connections EXCEPT ![c] = Closed]
       /\ ret' = [op |-> "store_conversation", connection |-> c,
                  user_id |-> conn.user_id, committed |-> TRUE,
                  ids |-> [i \in DOMAIN conn.pending |-> conn.pending[i].id],
                  value |-> None]
       /\ UNCHANGED <<user_facts, facts_seq, poi_knowledge, poi_seq, now>>

NextTurnWriters ==
    \/ now < MaxRankerClock /\ Tick
    \/ \E c \in Connections, user_id \in Users, session_id \in Sessions,
          ai_response \in Responses :
          OpenForTurns(c, user_id, session_id, MsgHi, ai_response)
    \/ \E c \in Connections, user_embed_ok \in BOOLEAN : InsertUserTurn(c, user_embed_ok)
    \/ \E c \in Connections, ai_embed_ok \in BOOLEAN : InsertAssistantTurn(c, ai_embed_ok)
    \/ \E c \in Connections : CommitTurns(c)
    \/ \E user_id \in Users : GetConversationHistory(user_id, MaxLimit, TRUE)

\* the Memory Store under concurrent appends and reads
SpecTurnWriters == Init /\ [][NextTurnWriters]_vars

(***************************************************************************)
(* cleanup_old_memories statement by statement, beside appends             *)
(***************************************************************************)
\* lines 396-397: the sweep is invoked and opens the store; `started_seq`
\* remembers the last row id given out before the invocation
OpenForSweep(c, max_age_hours) ==
    /\ connections[c].pc = "closed"
    /\ connections' = [connections EXCEPT ![c] =
                          [pc |-> "sweeping", user_id |-> 0,
                           max_age_hours |-> max_age_hours,
                           started_seq |-> memory_seq,
                           facts_found |-> <<>>, pending |-> <<>>]]
    /\ UNCHANGED <<conversation_memory, memory_seq, user_facts, facts_seq,
                   poi_knowledge, poi_seq, now, ret>>

\* lines 399-406: the DELETE, whose datetime('now') is read when the
\* statement runs, the commit and the close
ExecuteSweep(c) ==
    LET conn == connections[c]
        kept == SweepKeeps(conn.max_age_hours)
        deleted_count == Len(conversation_memory) - Len(kept)
    IN /\ conn.pc = "sweeping"
       /\ conversation_memory' = kept
       /\ connections' = [connections EXCEPT ![c] = Closed]
       /\ ret' = [op |-> "cleanup_old_memories", connection |-> c,
                  max_age_hours |-> conn.max_age_hours, db_ok |-> TRUE,
                  deleted_count |-> deleted_count, logged |-> "info",
                  value |-> CleanupReturn(deleted_count)]
       /\ UNCHANGED <<memory_seq, user_facts, facts_seq, poi_knowledge, poi_seq, now>>

NextSweeper ==
    \/ Tick
    \/ \E user_id \in Users, session_id \in Sessions, ai_response \in Responses :
          StoreConversation(user_id, session_id, MsgHi, ai_response, TRUE, TRUE, TRUE)
    \/ \E c \in Connections, max_age_hours \in 0..MaxAgeHours :
          OpenForSweep(c, max_age_hours)
    \/ \E c \in Connections : ExecuteSweep(c)

\* expiry sweeps beside appends
SpecSweeper == Init /\ [][NextSweeper]_vars

(***************************************************************************)
(* The three stores beside the expiry sweep                                *)
(***************************************************************************)
NextStores ==
    \/ now < MaxRankerClock /\ Tick
    \/ \E session_id \in Sessions, ai_response \in Responses :
          StoreConversation(1, session_id, MsgHi, ai_response, TRUE, TRUE, TRUE)
    \/ ExtractUserFacts(1, MsgLikeTea, TRUE)
    \/ \E poi_name \in PoiNames, tips \in PoiTips :
          AddPoiKnowledge(7, poi_name, <<"o","l","d">>, tips, TRUE, TRUE)
    \/ \E max_age_hours \in 0..MaxAgeHours, db_ok \in BOOLEAN :
          CleanupOldMemories(max_age_hours, db_ok)

\* turns, facts and POI records written over time, with expiry sweeps
SpecStores == Init /\ [][NextStores]_vars

(***************************************************************************)
(* chat beside writes to the Fact Store and the POI knowledge              *)
(***************************************************************************)
NextChatStores ==
    \/ now < MaxChatClock /\ Tick
    \/ \E user_id \in ChatUsers, db_ok \in BOOLEAN :
          \E history_rows \in (IF db_ok THEN HistoryRows(user_id, ChatHistoryLimit)
                               ELSE {<<>>}),
             memories \in FetchedCandidates(user_id, db_ok, TRUE) :
             \E relevant_memories \in {RankedMemories(memories, MsgHi, DefaultRetrieveLimit)} :
             \E context \in ChatContexts, completion \in Completions :
                Chat(user_id, MsgHi, context, completion, db_ok, TRUE,
                     history_rows, relevant_memories)
    \/ \E user_id \in ChatUsers :
          Len(user_facts) < MaxSideRows /\ ExtractUserFacts(user_id, MsgLoveJazz, TRUE)
    \/ \E poi_name \in PoiNames, tips \in PoiTips :
          /\ Len(poi_knowledge) < MaxSideRows
          /\ AddPoiKnowledge(7, poi_name, <<"o","l","d">>, tips, TRUE, TRUE)

\* chat turns while facts and POI records are written
SpecChatStores == Init /\ [][NextChatStores]_vars

(***************************************************************************)
(* A database file that earlier runs filled: init_memory_db creates the    *)
(* tables only if they do not exist, so the service starts on the rows the *)
(* file holds                                                              *)
(***************************************************************************)
\* a turn of user 1 found in the file
ExistingTurn(id, content, embedding, timestamp) ==
    [id |-> id, user_id |-> 1, session_id |-> "session_a",
     message_type |-> "user", content |-> content,
     embedding |-> embedding, importance_score |-> UserImportance,
     timestamp |-> timestamp, ttl_hours |-> DefaultTtlHours]

\* n turns stored by store_conversation, one per past clock tick, the oldest
\* first; the oldest says what the query MsgHi says
StoredEarlier(n) ==
    [k \in 1..n |->
        ExistingTurn(k, IF k = 1 THEN MsgHi ELSE MsgLikeTea,
                     ToBytes(Encode(IF k = 1 THEN MsgHi ELSE MsgLikeTea)),
                     k - n - 1)]

\* the embedding column of a turn of the file that store_conversation did
\* not write: NULL (the column is nullable), bytes that are no float32
\* buffer, or a float32 buffer of another length than the model's vectors
DamagedEmbeddings == {None, <<1, 0, 0>>, ToBytes(<<1>>)}

\* the newest turn of the file, written at the last past tick
DamagedTurn(id, embedding) == ExistingTurn(id, MsgHi, embedding, 0)

\* how many turns store_conversation wrote into the file
ExistingCounts == (CandidateWindow - 1)..(CandidateWindow + 1)

\* the contents of conversation_memory the service may start on
ExistingStores ==
    {StoredEarlier(n) : n \in ExistingCounts}
    \cup {Append(StoredEarlier(n), DamagedTurn(n + 1, embedding)) :
             n \in ExistingCounts, embedding \in DamagedEmbeddings}

InitExisting ==
    /\ conversation_memory \in ExistingStores
    /\ memory_seq = Len(conversation_memory)
    /\ user_facts = <<>>
    /\ facts_seq = 0
    /\ poi_knowledge = <<>>
    /\ poi_seq = 0
    /\ now = 0
    /\ connections = [c \in Connections |-> Closed]
    /\ ret = [op |-> "init"]

NextExisting ==
    \/ \E faults \in RetrievalFaults :
          \E memories \in FetchedCandidates(1, faults[1], faults[2]) :
              \E query \in Queries, limit \in 0..MaxRetrieve :
                  RetrieveRelevantMemories(1, query, limit,
                                           faults[1], faults[2], memories)
    \/ \E limit \in 0..MaxLimit, db_ok \in BOOLEAN :
          GetConversationHistory(1, limit, db_ok)

\* the two reads of the Memory Store over a file filled earlier
SpecExisting == InitExisting /\ [][NextExisting]_vars

(***************************************************************************)
(* Properties                                                              *)
(***************************************************************************)
\* the rows of user_facts of one user and one fact type
FactsOf(user_id, fact_type) ==
    {r \in RowSet(user_facts) : r.user_id = user_id /\ r.fact_type = fact_type}

\* C1: the Fact Store holds at most one row per (user id, fact kind), and
\* after an extraction that row is the fact just extracted for that kind.
FactStoreLastWriteWins ==
    /\ \A r, q \in RowSet(user_facts) :
          (r.user_id = q.user_id /\ r.fact_type = q.fact_type) => r = q
    /\ (ret.op = "extract_user_facts" /\ ret.db_ok) =>
          \A k \in DOMAIN ret.facts_found :
              \A r \in FactsOf(ret.user_id, ret.facts_found[k].type) :
                  r.fact_content = ret.facts_found[k].content

\* the rows of poi_knowledge of one POI id
PoisOf(poi_id) == {r \in RowSet(poi_knowledge) : r.poi_id = poi_id}

\* C2: there is at most one stored record per POI id, and after an upsert
\* the record of that id carries the description just written.
PoiUpsertIdempotent ==
    /\ \A poi_id \in PoiIds : Cardinality(PoisOf(poi_id)) <= 1
    /\ (ret.op = "add_poi_knowledge" /\ ret.db_ok /\ ret.embed_ok) =>
          \A r \in PoisOf(ret.poi_id) : r.description = ret.description

\* C3: when the embedder fails during store_conversation the user turn is
\* still persisted, with a null embedding, and a following history read
\* returns it.
EmbedFailureKeepsTurn ==
    (ret.op = "store_conversation" /\ ret.db_ok /\ ~ret.embed_ok) =>
        /\ \E r \in RowsOfUser(ret.user_id) :
              /\ r.message_type = "user"
              /\ r.content = ret.user_message
              /\ r.embedding = None
        /\ \A rows \in HistoryRows(ret.user_id, MaxLimit) :
              \E i \in DOMAIN rows : rows[i].content = ret.user_message

\* the rows of the user that the last history read returned / left out
Returned == {r \in RowsOfUser(ret.user_id) : \E i \in DOMAIN ret.ids : ret.ids[i] = r.id}
LeftOut == RowsOfUser(ret.user_id) \ Returned

\* the turns returned are the user's own and none left out is more recent
\* than one returned
ReturnsMostRecent ==
    /\ Cardinality(Returned) = Len(ret.ids)
    /\ \A r \in Returned, q \in LeftOut : q.timestamp <= r.timestamp

HistoryChronological ==
    ret.op = "get_conversation_history" =>
        \A i, j \in DOMAIN ret.ids : i < j => ret.ids[i] < ret.ids[j]

\* C6: a history read with limit N >= 1 that follows an append for the same
\* user returns the appended message, in chronological order.
AppendThenHistory ==
    [][(/\ ret.op = "store_conversation"
        /\ Len(ret.ids) = 2
        /\ ret'.op = "get_conversation_history"
        /\ ret'.user_id = ret.user_id
        /\ ret'.limit >= 1
        /\ ret'.db_ok)
       => (/\ \E i \in DOMAIN ret'.ids : ret'.ids[i] = ret.ids[1]
           /\ \A i, j \in DOMAIN ret'.ids : i < j => ret'.ids[i] < ret'.ids[j])]_vars

\* a step of cleanup_old_memories that reached the store
SweepStep == ret'.op = "cleanup_old_memories" /\ ret'.db_ok /\ now' = now

\* the age of a turn, in ticks
Age(r) == now - r.timestamp

\* C7: a sweep deletes every turn whose age exceeds max_age_hours and no
\* turn whose age is max_age_hours or less.
SweepDeletesExactlyOlder ==
    [][SweepStep =>
        \A r \in RowSet(conversation_memory) :
            /\ Age(r) > ret'.max_age_hours * TicksPerHour
                  => r \notin RowSet(conversation_memory')
            /\ Age(r) <= ret'.max_age_hours * TicksPerHour
                  => r \in RowSet(conversation_memory')]_vars

\* a sweep that deleted a turn and kept one whose age was exactly
\* max_age_hours
SweepAtBoundary ==
    /\ ret.op = "cleanup_old_memories"
    /\ ret.db_ok
    /\ ret.max_age_hours >= 1
    /\ ret.deleted_count >= 1
    /\ \E r \in RowSet(conversation_memory) :
          Age(r) = ret.max_age_hours * TicksPerHour

SweepReturnsCount ==
    ret.op = "cleanup_old_memories" =>
        (ret.value # None /\ ret.value = ret.deleted_count)

\* C10: a sweep deletes a turn exactly when its age exceeds the turn's own
\* ttl_hours.
SweepFollowsTtl ==
    [][SweepStep =>
        \A r \in RowSet(conversation_memory) :
            (r \notin RowSet(conversation_memory'))
                <=> (Age(r) > r.ttl_hours * TicksPerHour)]_vars

\* the stored row with a given id
RowById(id) == CHOOSE r \in RowSet(conversation_memory) : r.id = id

\* the blended score of a stored row against the query of the last retrieval
ScoreOf(r) ==
    BlendedScore(CosineSimilarity(Encode(ret.query), FromBuffer(r.embedding)),
                 r.importance_score)

\* C11: a memory whose blended score is at or under the floor never appears
\* in the output of retrieve_relevant_memories.
RelevanceFloorHolds ==
    ret.op = "retrieve_relevant_memories" =>
        /\ \A r \in EmbeddedRowsOfUser(ret.user_id) :
              ScoreOf(r) <= RelevanceFloor =>
                  \A i \in DOMAIN ret.ids : ret.ids[i] # r.id
        /\ \A i \in DOMAIN ret.value : ret.value[i].relevance_score > RelevanceFloor

\* a retrieval that returned a memory, had room for more and left out a
\* candidate at or under the floor
FloorDroppedCandidate ==
    /\ ret.op = "retrieve_relevant_memories"
    /\ ret.ids # <<>>
    /\ Len(ret.ids) < ret.limit
    /\ \E k \in DOMAIN ret.fetched : ScoreOf(RowById(ret.fetched[k])) <= RelevanceFloor

\* the positions of the last fetch whose row passes the floor
PassingPositions ==
    {k \in DOMAIN ret.fetched : ScoreOf(RowById(ret.fetched[k])) > RelevanceFloor}

\* the position in the last fetch of a returned memory
FetchPosition(id) == CHOOSE k \in DOMAIN ret.fetched : ret.fetched[k] = id

\* the positions of the last fetch that were returned
ReturnedPositions == {FetchPosition(ret.ids[i]) : i \in DOMAIN ret.ids}

\* position k of the fetch ranks ahead of position m: a higher score, or an
\* equal score and earlier in the store's return order
RanksAhead(k, m) ==
    LET sk == ScoreOf(RowById(ret.fetched[k]))
        sm == ScoreOf(RowById(ret.fetched[m]))
    IN sk > sm \/ (sk = sm /\ k < m)

\* C12: a retrieval that reaches the store returns exactly the `limit`
\* highest-scoring memories that pass the floor (all if fewer), in
\* non-increasing score order, equal scores in the store's return order,
\* which is most recent first.
RankingTopK ==
    (ret.op = "retrieve_relevant_memories" /\ ret.db_ok /\ ret.embed_ok) =>
        /\ Len(ret.ids) = Min(ret.limit, Cardinality(PassingPositions))
        /\ Cardinality(ReturnedPositions) = Len(ret.ids)
        /\ ReturnedPositions \subseteq PassingPositions
        /\ \A i, j \in DOMAIN ret.ids :
              i < j => RanksAhead(FetchPosition(ret.ids[i]), FetchPosition(ret.ids[j]))
        /\ \A k \in ReturnedPositions, m \in PassingPositions \ ReturnedPositions :
              RanksAhead(k, m)
        /\ \A i \in DOMAIN ret.value :
              ret.value[i].relevance_score = ScoreOf(RowById(ret.ids[i]))
        /\ \A k, m \in DOMAIN ret.fetched :
              k < m => RowById(ret.fetched[k]).timestamp >= RowById(ret.fetched[m]).timestamp

\* a retrieval that filled its limit with two memories of equal score and
\* left a lower-scoring memory that passes the floor out
RankingCutWithTie ==
    /\ ret.op = "retrieve_relevant_memories"
    /\ ret.limit = 2
    /\ Len(ret.value) = 2
    /\ ret.value[1].relevance_score = ret.value[2].relevance_score
    /\ PassingPositions \ ReturnedPositions # {}

\* a step of extract_user_facts
ExtractStep == ret'.op = "extract_user_facts" /\ now' = now

\* the cue phrases of one kind that occur in the lowercased message, as
\* positions of the kind's list
CuesIn(entry, message_lower) ==
    {i \in DOMAIN entry.patterns :
        \E at \in DOMAIN message_lower : OccursAt(entry.patterns[i], message_lower, at)}

\* the text from the first occurrence of a cue on, at most FactWindow
\* characters of it, without surrounding whitespace
TextFromCue(cue, user_message, message_lower) ==
    LET at == CHOOSE i \in DOMAIN message_lower :
                  /\ OccursAt(cue, message_lower, i)
                  /\ \A j \in 1..(i - 1) : ~OccursAt(cue, message_lower, j)
    IN Strip(SubSeq(user_message, at, Min(at + FactWindow - 1, Len(user_message))))

\* C13: an extraction yields at most one fact per kind, possibly of several
\* kinds; the fact of a kind comes from the first cue of the kind's list
\* that occurs in the message, case-insensitively; every fact has
\* confidence 0.7; a message without a cue yields no fact and writes nothing.
ExtractionFirstCuePerKind ==
    [][ExtractStep =>
          \E facts \in {ret'.facts_found}, message \in {ret'.user_message} :
          \E lower \in {Lower(message)} :
             /\ \A i, j \in DOMAIN facts : facts[i].type = facts[j].type => i = j
             /\ \A i \in DOMAIN facts : facts[i].confidence = FactConfidence
             /\ \A k \in DOMAIN fact_patterns :
                   \E cues \in {CuesIn(fact_patterns[k], lower)} :
                      LET entry == fact_patterns[k]
                          ofKind == {i \in DOMAIN facts : facts[i].type = entry.type}
                      IN IF cues = {} THEN ofKind = {}
                         ELSE \E i \in ofKind :
                                 facts[i].content =
                                     TextFromCue(entry.patterns[CHOOSE c \in cues :
                                                     \A d \in cues : c <= d], message, lower)
             /\ \A i \in DOMAIN facts :
                   \E k \in DOMAIN fact_patterns : fact_patterns[k].type = facts[i].type
             /\ facts = <<>> => (user_facts' = user_facts /\ facts_seq' = facts_seq)]_vars

\* an extraction that found facts of two kinds in a message where a cue
\* listed later in its kind's list occurs earlier in the text than the cue
\* that is used
TwoKindsLaterCueEarlier ==
    /\ ret.op = "extract_user_facts"
    /\ ret.db_ok
    /\ Len(ret.facts_found) = 2
    /\ \E k \in DOMAIN fact_patterns :
          LET patterns == fact_patterns[k].patterns
              lower == Lower(ret.user_message)
          IN \E i, j \in CuesIn(fact_patterns[k], lower) :
                /\ i < j
                /\ Find(patterns[j], lower) < Find(patterns[i], lower)
    /\ \A k \in DOMAIN ret.facts_found :
          \E r \in FactsOf(ret.user_id, ret.facts_found[k].type) :
              r.fact_content = ret.facts_found[k].content

\* the positions of a prompt that hold a given piece of fixed text
PositionsOf(prompt, piece) == {i \in DOMAIN prompt : prompt[i] = piece}

\* the text that follows position i of a prompt up to, not including, the
\* next piece of fixed text
ValueAfter(prompt, i) ==
    LET stops == {j \in (i + 1)..Len(prompt) : prompt[j] \in FixedPieces}
        stop == CHOOSE j \in stops : \A k \in stops : j <= k
    IN SubSeq(prompt, i + 1, stop - 1)

\* C15: a prompt starts with the base persona description and ends with the
\* closing guidance block; the persona, memory and context sections appear,
\* in that order, exactly when the persona profile, the ranked memories and
\* the ambient context are present (not None and not empty); the memory
\* section lists the content of the first 3 memories at most, verbatim and
\* in rank order; a context field that is missing is rendered as 'Unknown'.
PromptLayout ==
    ret.op = "build_persona_prompt" =>
        \E prompt \in {ret.value} :
        \E persona \in {PositionsOf(prompt, PersonaHeader)},
           memory \in {PositionsOf(prompt, MemoryHeader)},
           context \in {PositionsOf(prompt, ContextHeader)},
           bullets \in {PositionsOf(prompt, "- ")} :
           /\ SubSeq(prompt, 1, Len(BasePromptText)) = BasePromptText
           /\ SubSeq(prompt, Len(prompt) - Len(ResponseGuidelines) + 1, Len(prompt))
                 = ResponseGuidelines
           /\ Cardinality(persona) = (IF Truthy(ret.travel_dna) THEN 1 ELSE 0)
           /\ Cardinality(memory) = (IF ret.memories # <<>> THEN 1 ELSE 0)
           /\ Cardinality(context) = (IF Truthy(ret.context) THEN 1 ELSE 0)
           /\ \A i \in persona, j \in memory \cup context : i < j
           /\ \A i \in memory, j \in context : i < j
           /\ \A i \in persona \cup memory \cup context :
                 Len(BasePromptText) < i /\ i <= Len(prompt) - Len(ResponseGuidelines)
           /\ Cardinality(bullets) = Min(PromptMemoryCap, Len(ret.memories))
           /\ \A i \in bullets :
                 LET k == Cardinality({j \in bullets : j <= i})
                     content == ret.memories[k].content
                 IN /\ \A j \in memory : j < i
                    /\ \A j \in context : i < j
                    /\ SubSeq(prompt, i + 1, i + Len(content)) = content
                    /\ prompt[i + Len(content) + 1] = "\n"
                    /\ \/ prompt[i + Len(content) + 2] = "- "
                       \/ prompt[i + Len(content) + 2] = MemoryFooter
           /\ \A i \in context :
                 \A f \in DOMAIN ContextFields :
                    \E at \in PositionsOf(prompt, ContextFields[f].label) :
                       /\ i <= at
                       /\ ValueAfter(prompt, at) =
                             (IF HasKey(ret.context.items, ContextFields[f].key)
                              THEN Get(ret.context.items, ContextFields[f].key, <<>>)
                              ELSE Unknown)

\* a prompt built from a persona profile, four ranked memories and a context
\* that lacks some of its fields
PromptAllSections ==
    /\ ret.op = "build_persona_prompt"
    /\ Truthy(ret.travel_dna)
    /\ Len(ret.memories) = PromptMemoryCap + 1
    /\ ret.memories[1].content # ret.memories[2].content
    /\ Truthy(ret.context)
    /\ ~HasKey(ret.context.items, "location")
    /\ HasKey(ret.context.items, "mood")

\* C16: every chat turn, with or without an ambient context, performs the
\* steps read history, read relevant memories, completion call, append both
\* turns, extract facts, in that order; when the completion returned text
\* (and the store and the embedder work) the user turn and the assistant
\* turn are in the Memory Store afterwards.
ChatRunsAllSteps ==
    ret.op = "chat" =>
        /\ ret.steps = ChatSteps
        /\ (ret.completion.ok /\ ret.db_ok /\ ret.embed_ok) =>
              /\ Len(ret.appended) = 2
              /\ \E u, a \in RowSet(conversation_memory) :
                    /\ u.id = ret.appended[1] /\ a.id = ret.appended[2]
                    /\ u.message_type = "user" /\ u.content = ret.message
                    /\ a.message_type = "assistant" /\ a.content = ret.value.response

\* C17: whatever fails, chat does not raise and its result carries a
\* non-empty response text; a failed completion is answered with a generic
\* apology text.
ChatAlwaysAnswers ==
    ret.op = "chat" =>
        /\ ~ret.raised
        /\ ret.value.response # <<>>
        /\ ~ret.completion.ok => ret.value.response \in {CompletionApology, ChatTrouble}

\* a step of chat
ChatStep == ret'.op = "chat" /\ now' = now

\* C19: a chat turn during which the store is unreachable reads an empty
\* history and no memories, leaves the stores unchanged, does not raise and
\* still returns the text of the completion step as its response.
StorageFailureHarmless ==
    [][(ChatStep /\ ~ret'.db_ok) =>
          /\ ret'.history = <<>>
          /\ ret'.memories = <<>>
          /\ conversation_memory' = conversation_memory
          /\ user_facts' = user_facts
          /\ ~ret'.raised
          /\ ret'.value.response = get_openai_response(ret'.completion)]_vars

\* the /chat handlers of the model
HttpHandlers ==
    {"production_main.chat_with_ai", "main.chat_with_ai_twin", "simple_main.chat_endpoint"}

\* a request during which the completion call was made and failed
CompletionFailed == ret.op \in HttpHandlers /\ ret.called /\ ret.outcome # "ok"

\* C18: every /chat handler answers a request whose completion call failed
\* (timeout, rate limit, authentication) with a fallback reply, never with
\* an error status or an exception.
HttpAlwaysFallsBack ==
    CompletionFailed =>
        /\ ret.status = 200
        /\ ~ret.raised
        /\ ret.response # <<>>

\* C18, as the handlers behave: main.chat_with_ai_twin and
\* simple_main.chat_endpoint answer every failed completion with a fallback
\* reply; production_main.chat_with_ai does so except for a rate limit,
\* which it answers with status 429, and an authentication failure, which
\* it answers with status 500.
HttpFallsBackExceptProduction ==
    CompletionFailed =>
        IF ret.op = "production_main.chat_with_ai" /\ ret.outcome = "rate_limit"
        THEN ret.status = 429 /\ ret.raised /\ ret.response = <<>>
        ELSE IF ret.op = "production_main.chat_with_ai" /\ ret.outcome = "authentication"
        THEN ret.status = 500 /\ ret.raised /\ ret.response = <<>>
        ELSE /\ ret.status = 200
             /\ ~ret.raised
             /\ ret.response # <<>>
             /\ ret.response # HttpCompletionText
             /\ ret.source \in {"fallback", "fallback-basic", "fallback-enhanced"}

\* production_main answered a rate-limited completion call
ProductionRateLimited ==
    /\ CompletionFailed
    /\ ret.op = "production_main.chat_with_ai"
    /\ ret.outcome = "rate_limit"
    /\ ret.status = 429

\* C20: when two turns of one user extract a fact of the same kind at the
\* same time, the Fact Store ends, in every interleaving, with exactly one
\* row for that (user, kind), equal in full to the fact of the writer that
\* committed last: never two rows, never a mix of the two facts.
ConcurrentUpsertOneRow ==
    /\ \A r \in RowSet(user_facts) :
          Cardinality(FactsOf(r.user_id, r.fact_type)) = 1
    /\ (ret.op = "extract_user_facts" /\ ret.committed) =>
          \A k \in DOMAIN ret.facts_found :
              \E r \in FactsOf(ret.user_id, ret.facts_found[k].type) :
                  /\ r.fact_content = ret.facts_found[k].content
                  /\ r.confidence = ret.facts_found[k].confidence

\* the stored turns and the stored facts of one user
TurnsOwnedBy(user_id) == {r \in RowSet(conversation_memory) : r.user_id = user_id}
FactsOwnedBy(user_id) == {r \in RowSet(user_facts) : r.user_id = user_id}

\* a step that appends turns or extracts facts
WriteStep ==
    /\ ret'.op \in {"store_conversation", "extract_user_facts"}
    /\ now' = now

\* a step that reads the history or the relevant memories
ReadStep ==
    /\ ret'.op \in {"get_conversation_history", "retrieve_relevant_memories"}
    /\ ret' # ret

\* C21: appending turns or extracting facts for one user leaves the turns
\* and facts of every other user, what get_conversation_history returns to
\* every other user, and the rows retrieve_relevant_memories fetches for
\* every other user (its ranking is computed from the fetched rows and the
\* query alone), unchanged; what the two reads return to a user are that
\* user's own turns only.
UsersDoNotInterfere ==
    [][/\ WriteStep =>
            \A other \in Users \ {ret'.user_id} :
               /\ TurnsOwnedBy(other)' = TurnsOwnedBy(other)
               /\ FactsOwnedBy(other)' = FactsOwnedBy(other)
               /\ \A limit \in 0..MaxLimit :
                     HistoryRows(other, limit)' = HistoryRows(other, limit)
               /\ CandidateRows(other)' = CandidateRows(other)
       /\ ReadStep =>
            \A i \in DOMAIN ret'.ids :
               \E r \in TurnsOwnedBy(ret'.user_id) : r.id = ret'.ids[i]]_vars

\* turns were appended for user 1 while user 2 has stored turns and facts
WroteBesideOtherUser ==
    /\ ret.op = "store_conversation"
    /\ ret.user_id = 1
    /\ Len(ret.ids) = 2
    /\ TurnsOwnedBy(2) # {}
    /\ FactsOwnedBy(2) # {}
    /\ TurnsOwnedBy(1) # {}

\* the turns of a user that carry an embedding
EmbeddedTurnsOwnedBy(user_id) == {r \in TurnsOwnedBy(user_id) : r.embedding # None}

\* the turns of `rows` other than r that are at least as new as r
NotOlderThan(rows, r) == {q \in rows \ {r} : q.timestamp >= r.timestamp}

\* the score the ranker gives turn r for a query text
ScoreFor(r, query) == RelevanceScore(r, Encode(query))

\* C22: every memory retrieve_relevant_memories returns is a turn of the
\* user with a non-null embedding that has fewer than 50 embedded turns of
\* the user newer than it; get_conversation_history returns every turn,
\* with or without embedding, that has fewer than the fetch count of turns
\* at least as new; and a retrieval with a positive limit over a readable
\* store returns a memory whenever an embedded turn inside the window scores
\* above the floor, whatever null-embedding turns the store holds.
RanksOnlyRecentEmbedded ==
    /\ ret.op = "retrieve_relevant_memories" =>
          \A i \in DOMAIN ret.ids :
             \E r \in EmbeddedTurnsOwnedBy(ret.user_id) :
                /\ r.id = ret.ids[i]
                /\ Cardinality({q \in EmbeddedTurnsOwnedBy(ret.user_id) :
                                   q.timestamp > r.timestamp}) < CandidateWindow
    /\ (ret.op = "get_conversation_history" /\ ret.db_ok) =>
          \A r \in TurnsOwnedBy(ret.user_id) :
             Cardinality(NotOlderThan(TurnsOwnedBy(ret.user_id), r))
                   < HistoryFetchCount(ret.limit)
                => \E i \in DOMAIN ret.ids : ret.ids[i] = r.id
    /\ (/\ ret.op = "retrieve_relevant_memories"
        /\ ret.db_ok /\ ret.embed_ok /\ ret.limit > 0
        /\ \E r \in EmbeddedTurnsOwnedBy(ret.user_id) :
              /\ Cardinality(NotOlderThan(EmbeddedTurnsOwnedBy(ret.user_id), r))
                    < CandidateWindow
              /\ ~ScoringRaises(r, Encode(ret.query))
              /\ ScoreFor(r, ret.query) > RelevanceFloor)
         => ret.ids # <<>>

\* a retrieval over more than 50 embedded turns and a null-embedding turn
\* returned memories, and an embedded turn outside the window scores higher
\* than every memory returned
WindowCutBestTurn ==
    /\ ret.op = "retrieve_relevant_memories"
    /\ ret.ids # <<>>
    /\ Cardinality(EmbeddedTurnsOwnedBy(ret.user_id)) > CandidateWindow
    /\ \E r \in TurnsOwnedBy(ret.user_id) : r.embedding = None
    /\ \E r \in EmbeddedTurnsOwnedBy(ret.user_id) :
          /\ \A i \in DOMAIN ret.ids : ret.ids[i] # r.id
          /\ \A i \in DOMAIN ret.value :
                ScoreFor(r, ret.query) > ret.value[i].relevance_score

\* the rows the last retrieval fetched, in fetch order
LastFetched ==
    [i \in DOMAIN ret.fetched |->
        CHOOSE r \in RowSet(conversation_memory) : r.id = ret.fetched[i]]

\* the fetched rows whose embedding can be read as a vector of the query's
\* length
LastFetchedReadable ==
    SelectSeq(LastFetched, LAMBDA r : ~ScoringRaises(r, Encode(ret.query)))

\* C23: what retrieve_relevant_memories returns for a fetch is what it
\* returns for the same fetch with the rows of unreadable embedding taken
\* out: these rows are skipped, every other fetched row is scored, filtered
\* and ranked.
CorruptEmbeddingSkipped ==
    ret.op = "retrieve_relevant_memories" =>
       \E expected \in {RankedMemories(LastFetchedReadable, ret.query, ret.limit)} :
          ret.value = [i \in DOMAIN expected |-> MemoryEntry(expected[i])]

\* a retrieval fetched a full window holding a turn of unreadable embedding
\* and returned memories
RankedAroundCorruptTurn ==
    /\ ret.op = "retrieve_relevant_memories"
    /\ Len(ret.fetched) = CandidateWindow
    /\ Len(LastFetchedReadable) < Len(LastFetched)
    /\ ret.ids # <<>>

\* C24: after a chat turn whose completion call failed (the store and the
\* embedder working) the user turn and an assistant turn holding the apology
\* text are in the Memory Store, appended after the call.
FailedCompletionKeepsBothTurns ==
    (ret.op = "chat" /\ ~ret.completion.ok /\ ret.db_ok /\ ret.embed_ok) =>
        /\ ret.steps = ChatSteps
        /\ Len(ret.appended) = 2
        /\ \E u, a \in RowSet(conversation_memory) :
              /\ u.id = ret.appended[1] /\ a.id = ret.appended[2]
              /\ u.message_type = "user" /\ u.content = ret.message
              /\ a.message_type = "assistant" /\ a.content = CompletionApology

\* every user turn of `rows` has its assistant turn, of the next id, in
\* `rows`, and every assistant turn its user turn
TurnsInPairs(rows) ==
    \A r \in rows :
       IF r.message_type = "user"
       THEN \E a \in rows : /\ a.id = r.id + 1
                            /\ a.message_type = "assistant"
                            /\ a.user_id = r.user_id
       ELSE \E u \in rows : /\ u.id = r.id - 1
                            /\ u.message_type = "user"
                            /\ u.user_id = r.user_id

\* C25: at every moment of every interleaving of appends and reads, the
\* turns another request can see come in pairs, the user turn and the
\* assistant turn of one call; a history read that was not cut by its limit
\* holds both turns of a call or neither; and a store_conversation that ends
\* before both inserts are done leaves the Memory Store as it was.
NoPartialTurnVisible ==
    [][/\ TurnsInPairs(RowSet(conversation_memory'))
       /\ (ret'.op = "get_conversation_history"
             /\ Len(ret'.ids) < HistoryFetchCount(ret'.limit)) =>
              TurnsInPairs({r \in RowSet(conversation_memory') :
                              \E i \in DOMAIN ret'.ids : ret'.ids[i] = r.id})
       /\ \A c \in Connections :
             (/\ connections[c].pc = "storing"
              /\ connections'[c].pc = "closed"
              /\ Len(connections[c].pending) < 2) =>
                 conversation_memory' = conversation_memory]_vars

\* a user's history was read, and one call's pair returned, while another
\* call for that user has inserted its user turn and not yet committed
ReadBesideOpenTransaction ==
    /\ ret.op = "get_conversation_history"
    /\ Len(ret.ids) = 2
    /\ \E c \in Connections :
          /\ connections[c].pc = "storing"
          /\ connections[c].user_id = ret.user_id
          /\ Len(connections[c].pending) = 1

\* C26: when a sweep completes, every turn appended after the sweep was
\* invoked is still in the Memory Store, for every max_age_hours >= 0 and
\* every interleaving of the sweep with appends and the clock.
SweepSparesLaterTurns ==
    [][\A c \in Connections :
          (connections[c].pc = "sweeping" /\ connections'[c].pc = "closed") =>
             \A r \in RowSet(conversation_memory) :
                r.id > connections[c].started_seq =>
                   r \in RowSet(conversation_memory')]_vars

\* the cue of a fact: the first pattern of the fact's type that occurs in
\* the lowercased message
CueOf(fact, user_message) ==
    LET entry == fact_patterns[CHOOSE k \in DOMAIN fact_patterns :
                                  fact_patterns[k].type = fact.type]
    IN FirstMatch(entry.patterns, Lower(user_message))

\* C27: the content of every extracted fact has at most 100 characters and
\* begins, case-insensitively, with the cue phrase that was matched.
FactContentStartsAtCue ==
    ret.op = "extract_user_facts" =>
       \A i \in DOMAIN ret.facts_found :
          /\ Len(ret.facts_found[i].content) <= FactWindow
          /\ OccursAt(CueOf(ret.facts_found[i], ret.user_message),
                      Lower(ret.facts_found[i].content), 1)

\* the text of a prompt between two pieces of fixed text
Between(prompt, open, close) ==
    SubSeq(prompt, (CHOOSE i \in DOMAIN prompt : prompt[i] = open) + 1,
                   (CHOOSE j \in DOMAIN prompt : prompt[j] = close) - 1)

\* the place of item i when the items are ordered by descending weight,
\* equal weights in insertion order
WeightRank(items, i) ==
    1 + Cardinality({j \in DOMAIN items :
                        \/ items[j][2] > items[i][2]
                        \/ items[j][2] = items[i][2] /\ j < i})

\* the persona labels and category preferences of the last prompt's profile
LastLabels == Get(ret.travel_dna.items, "persona_labels", <<>>)
LastCategories == Get(ret.travel_dna.items, "category_preferences", <<>>)

\* C28: the persona section names as primary personality the first label,
\* in insertion order, of the maximum weight, and as preferred categories the
\* at most 3 categories of highest weight, by descending weight and with
\* equal weights in insertion order.
PersonaTopByWeight ==
    (ret.op = "build_persona_prompt" /\ Truthy(ret.travel_dna)) =>
       /\ LastLabels # <<>> =>
             \E i \in DOMAIN LastLabels :
                /\ WeightRank(LastLabels, i) = 1
                /\ Between(ret.value, PersonaHeader, "\n- Budget preference: ")
                      = LastLabels[i][1] \o ScoreOpen \o Format2f(LastLabels[i][2]) \o <<")">>
       /\ LastCategories # <<>> =>
             \E top \in {[p \in 1..Min(TopCategories, Len(LastCategories)) |->
                            LastCategories[CHOOSE i \in DOMAIN LastCategories :
                                              WeightRank(LastCategories, i) = p]]} :
                Between(ret.value, "\n- Preferred categories: ", "\n- Transport modes: ")
                   = Join([p \in DOMAIN top |->
                             top[p][1] \o <<" ", "(">> \o Format2f(top[p][2]) \o <<")">>])

\* a prompt was built for a profile in which two labels share the maximum
\* weight and two categories of equal weight stand on either side of the cut
\* after the third
PersonaTiesAtTopAndCut ==
    /\ ret.op = "build_persona_prompt"
    /\ Truthy(ret.travel_dna)
    /\ \E i, j \in DOMAIN LastLabels :
          /\ i # j
          /\ LastLabels[i][2] = LastLabels[j][2]
          /\ WeightRank(LastLabels, i) = 1
    /\ \E i, j \in DOMAIN LastCategories :
          /\ WeightRank(LastCategories, i) = TopCategories
          /\ WeightRank(LastCategories, j) = TopCategories + 1
          /\ LastCategories[i][2] = LastCategories[j][2]

\* a step of cleanup_old_memories, the store reachable or not
AnySweepStep == ret'.op = "cleanup_old_memories" /\ now' = now

\* C29: a sweep leaves every user fact and every POI record as it was,
\* keeps the turns it does not remove with all their fields and in their
\* order, and removes only turns older than its cutoff.
SweepOnlyRemovesExpired ==
    [][AnySweepStep =>
          /\ user_facts' = user_facts
          /\ facts_seq' = facts_seq
          /\ poi_knowledge' = poi_knowledge
          /\ poi_seq' = poi_seq
          /\ memory_seq' = memory_seq
          /\ conversation_memory' =
                SelectSeq(conversation_memory,
                          LAMBDA r : r \in RowSet(conversation_memory'))
          /\ \A r \in RowSet(conversation_memory) \ RowSet(conversation_memory') :
                r.timestamp < now - ret'.max_age_hours * TicksPerHour]_vars

\* a sweep removed turns and kept others while facts and POI records were
\* stored
SweptBesideFactsAndPois ==
    /\ ret.op = "cleanup_old_memories"
    /\ ret.deleted_count > 0
    /\ conversation_memory # <<>>
    /\ user_facts # <<>>
    /\ poi_knowledge # <<>>

\* the ids of a sequence of rows or entries
IdsOf(rows) == [i \in DOMAIN rows |-> rows[i].id]

\* C30: what a chat call produces is fixed by its arguments, the outcome of
\* the completion call, the clock and the conversation turns alone: the
\* prompt is the one built without a profile from memories ranked out of the
\* user's turns, the messages passed to the completion call are that prompt,
\* a history read from the user's turns and the message, and the turns
\* appended are the message and the response; no row of user_facts or
\* poi_knowledge enters any of them, so two stores that agree on the turns
\* give the same three results.
ChatIgnoresFactsAndPois ==
    [][ChatStep =>
          /\ \E memories \in FetchedCandidates(ret'.user_id, ret'.db_ok, ret'.embed_ok) :
                \E ranked \in {RankedMemories(memories, ret'.message, DefaultRetrieveLimit)} :
                   /\ IdsOf(ranked) = ret'.memories
                   /\ ret'.system_prompt = build_persona_prompt(NoDict, ranked, ret'.context)
          /\ \E rows \in (IF ret'.db_ok
                          THEN HistoryRows(ret'.user_id, ChatHistoryLimit) ELSE {<<>>}) :
                /\ IdsOf(rows) = ret'.history
                /\ ret'.messages =
                      ChatMessagesFor(ret'.system_prompt,
                                      [i \in DOMAIN rows |-> HistoryEntry(rows[i])],
                                      ret'.message)
          /\ \E added \in {SubSeq(conversation_memory', Len(conversation_memory) + 1,
                                  Len(conversation_memory'))} :
                /\ conversation_memory' = conversation_memory \o added
                /\ IdsOf(added) = ret'.appended
                /\ added # <<>> =>
                      /\ Len(added) = 2
                      /\ added[1].content = ret'.message
                      /\ added[2].content = get_openai_response(ret'.completion)
                      /\ \A i \in DOMAIN added :
                            /\ added[i].user_id = ret'.user_id
                            /\ added[i].timestamp = now
                            /\ added[i].embedding = ToBytes(Encode(added[i].content))]_vars

\* a chat call that read a history and used memories while the Fact Store
\* held a fact of the user and the POI knowledge held a record
ChatBesideFactsAndPois ==
    /\ ret.op = "chat"
    /\ ret.memories # <<>>
    /\ ret.history # <<>>
    /\ \E r \in RowSet(user_facts) : r.user_id = ret.user_id
    /\ poi_knowledge # <<>>
====
